---- MODULE Spec2Model ----
(***************************************************************************)
(* Model of the Tata car advisor's agent loops (GeminiAgent.run,           *)
(* GroqAgent.run), the tool dispatcher and the fallback orchestrator       *)
(* run_agent of src/agents.py.                                             *)
(*                                                                         *)
(* Python strings that the code inspects (exception messages, answers) are *)
(* sequences of string pieces: "429 RESOURCE_EXHAUSTED" is                  *)
(* <<"429", " ", "RESOURCE_EXHAUSTED">>.  `kw in err_str` is the           *)
(* contiguous-subsequence test Contains.  The empty string is <<>>.        *)
(* Optional[str] is a sequence of length at most one: None is <<>>.        *)
(***************************************************************************)
EXTENDS Integers, Sequences, FiniteSets, TLC

VARIABLES
    query,          \* run_agent argument: the user's question
    gemini_agent,   \* run_agent argument: TRUE iff a GeminiAgent was passed (not None)
    groq_agent,     \* run_agent argument: TRUE iff a GroqAgent was passed (not None)
    force_groq,     \* run_agent argument
    pc,             \* position of run_agent: start | gemini | groq_forced | groq_fallback | done
    step,           \* loop variable of the running agent loop (0-based, range(MAX_STEPS))
    conversation,   \* contents (Gemini) / messages (Groq) of the running loop
    tool_log,       \* tool_log of the running loop
    pending,        \* calls of the current turn the inner for loop has not reached yet
    tr_parts,       \* Gemini: function responses collected in the current turn
    err_str,        \* run_agent local: str(e) of the primary's exception (None until caught)
    outcome,        \* running | returned | raised : how run_agent ended
    result,         \* the AgentResult run_agent returned (meaningful when outcome = returned)
    raised,         \* message of the exception that escaped run_agent (when outcome = raised)
    sends,          \* history: provider calls the running (or last) loop has made
    runs,           \* history: times each loop was started
    turn,           \* history: the provider's last response and the log length when it arrived;
                    \* after a fallback, the length of the log the primary's loop left behind
    tables,         \* the reference tables of database.py
    weather,        \* what wttr.in answers at the moment
    dispatched,     \* history: the last two calls of dispatch on its own, with how they ended
    cars_call,      \* a call of get_tata_cars on its own: its arguments and what it returned
    inflight,       \* concurrent requests: run_agent's arguments and locals, per request
    frames,         \* concurrent requests: the locals of the agent.run() call in progress
    quota_call,     \* the quota classification on its own: a message and what it was classified as
    both            \* the two agent loops side by side, given the same responses

vars == << query, gemini_agent, groq_agent, force_groq, pc, step, conversation,
           tool_log, pending, tr_parts, err_str, outcome, result, raised,
           sends, runs, turn, tables, weather, dispatched, cars_call,
           inflight, frames, quota_call, both >>

-----------------------------------------------------------------------------
(* Bounds of the environment *)

\* A provider may ask for any tools with any arguments until it has asked for
\* this many calls in one loop; from then on every tool-call response is the
\* single call CallGood without text.  (Responses whose calls are not executed
\* are never limited.)
MaxVariedCalls == 2

-----------------------------------------------------------------------------
(* Constants of the program *)

MAX_STEPS == 12

GEMINI_MODEL == "gemini-2.5-flash"
GROQ_MODEL == "llama-3.3-70b-versatile"

SYSTEM_PROMPT == "SYSTEM_PROMPT"

QUOTA_KEYWORDS ==
    { <<"429">>, <<"RESOURCE_EXHAUSTED">>, <<"quota">>,
      <<"rate", "_", "limit">>, <<"rate", " ", "limit">> }

MaxStepsAnswer == <<"Agent reached maximum steps without a final answer.">>

NoProviderError ==
    <<"No AI provider available. Add GEMINI_API_KEY and/or GROQ_API_KEY to .env">>

None == <<>>
Some(v) == <<v>>

-----------------------------------------------------------------------------
(* Strings *)

\* Python `kw in s` on strings
Contains(s, kw) ==
    \E i \in 0..(Len(s) - Len(kw)) : SubSeq(s, i + 1, i + Len(kw)) = kw

\* Python sep.join(parts) with sep = "\n"
RECURSIVE JoinLines(_)
JoinLines(parts) ==
    IF parts = <<>> THEN <<>>
    ELSE IF Len(parts) = 1 THEN parts[1]
    ELSE parts[1] \o <<"\n">> \o JoinLines(Tail(parts))

-----------------------------------------------------------------------------
(* AgentResult dataclass *)

AgentResult(answer, log, model, provider, fallback_used, error) ==
    [ answer |-> answer, tool_log |-> log, model |-> model,
      provider |-> provider, fallback_used |-> fallback_used, error |-> error ]

\* the defaults of the dataclass: tool_log [], model "", provider "",
\* fallback_used False, error None
AgentError(msg, provider) ==
    AgentResult(<<>>, <<>>, "", provider, FALSE, Some(msg))

NoResult == AgentResult(<<>>, <<>>, "", "", FALSE, None)

-----------------------------------------------------------------------------
(* Reference tables (src/database.py) *)

\* Texts the tools inspect are sequences of one-character strings.  A number
\* is its value in hundredths: 6.13 is 613, 5 is 500.

\* the fuel names of the tables
FuelName ==
    [ Petrol |-> <<"P", "e", "t", "r", "o", "l">>,
      Diesel |-> <<"D", "i", "e", "s", "e", "l">>,
      CNG |-> <<"C", "N", "G">>,
      EV |-> <<"E", "V">> ]

\* the keys of CITY_PROFILES and of the price tables
CityName ==
    [ Mumbai |-> <<"M", "u", "m", "b", "a", "i">>,
      Chennai |-> <<"C", "h", "e", "n", "n", "a", "i">>,
      Kochi |-> <<"K", "o", "c", "h", "i">>,
      Kolkata |-> <<"K", "o", "l", "k", "a", "t", "a">>,
      Bangalore |-> <<"B", "a", "n", "g", "a", "l", "o", "r", "e">>,
      Pune |-> <<"P", "u", "n", "e">>,
      Delhi |-> <<"D", "e", "l", "h", "i">>,
      Lucknow |-> <<"L", "u", "c", "k", "n", "o", "w">>,
      Hyderabad |-> <<"H", "y", "d", "e", "r", "a", "b", "a", "d">>,
      Ahmedabad |-> <<"A", "h", "m", "e", "d", "a", "b", "a", "d">>,
      Jaipur |-> <<"J", "a", "i", "p", "u", "r">>,
      Shimla |-> <<"S", "h", "i", "m", "l", "a">>,
      DEFAULT |-> <<"D", "E", "F", "A", "U", "L", "T">> ]

\* TATA_CARS_DB in the order of the dict, with the fields the tools compute
\* with; mileage_kmpl None is <<>>
TATA_CARS_DB ==
    << [ name |-> <<"T", "a", "t", "a", " ", "P", "u", "n", "c", "h">>,
         price_min |-> 613, price_max |-> 999, seats |-> 500, mileage_kmpl |-> <<1882>>,
         fuel_types |-> << FuelName.Petrol, FuelName.CNG, FuelName.EV >> ],
       [ name |-> <<"T", "a", "t", "a", " ", "T", "i", "a", "g", "o">>,
         price_min |-> 560, price_max |-> 849, seats |-> 500, mileage_kmpl |-> <<1980>>,
         fuel_types |-> << FuelName.Petrol, FuelName.CNG, FuelName.EV >> ],
       [ name |-> <<"T", "a", "t", "a", " ", "T", "i", "g", "o", "r">>,
         price_min |-> 799, price_max |-> 1129, seats |-> 500, mileage_kmpl |-> <<1985>>,
         fuel_types |-> << FuelName.Petrol, FuelName.CNG, FuelName.EV >> ],
       [ name |-> <<"T", "a", "t", "a", " ", "N", "e", "x", "o", "n">>,
         price_min |-> 810, price_max |-> 1550, seats |-> 500, mileage_kmpl |-> <<1701>>,
         fuel_types |-> << FuelName.Petrol, FuelName.Diesel, FuelName.EV >> ],
       [ name |-> <<"T", "a", "t", "a", " ", "A", "l", "t", "r", "o", "z">>,
         price_min |-> 660, price_max |-> 1089, seats |-> 500, mileage_kmpl |-> <<1938>>,
         fuel_types |-> << FuelName.Petrol, FuelName.Diesel, FuelName.CNG >> ],
       [ name |-> <<"T", "a", "t", "a", " ", "H", "a", "r", "r", "i", "e", "r">>,
         price_min |-> 1549, price_max |-> 2644, seats |-> 500, mileage_kmpl |-> <<1635>>,
         fuel_types |-> << FuelName.Diesel >> ],
       [ name |-> <<"T", "a", "t", "a", " ", "S", "a", "f", "a", "r", "i">>,
         price_min |-> 1619, price_max |-> 2734, seats |-> 700, mileage_kmpl |-> <<1469>>,
         fuel_types |-> << FuelName.Diesel >> ],
       [ name |-> <<"T", "a", "t", "a", " ", "C", "u", "r", "v", "v">>,
         price_min |-> 1000, price_max |-> 1900, seats |-> 500, mileage_kmpl |-> <<1801>>,
         fuel_types |-> << FuelName.Petrol, FuelName.Diesel, FuelName.EV >> ],
       [ name |-> <<"T", "a", "t", "a", " ", "S", "i", "e", "r", "r", "a", " ", "E", "V">>,
         price_min |-> 2500, price_max |-> 3000, seats |-> 500, mileage_kmpl |-> <<>>,
         fuel_types |-> << FuelName.EV >> ] >>

CITY_PROFILES ==
    << [ city |-> CityName.Mumbai, humidity |-> "very_high", terrain |-> "flat" ],
       [ city |-> CityName.Chennai, humidity |-> "very_high", terrain |-> "flat" ],
       [ city |-> CityName.Kochi, humidity |-> "very_high", terrain |-> "flat" ],
       [ city |-> CityName.Kolkata, humidity |-> "high", terrain |-> "flat" ],
       [ city |-> CityName.Bangalore, humidity |-> "moderate", terrain |-> "flat" ],
       [ city |-> CityName.Pune, humidity |-> "moderate", terrain |-> "hilly" ],
       [ city |-> CityName.Delhi, humidity |-> "low", terrain |-> "flat" ],
       [ city |-> CityName.Lucknow, humidity |-> "moderate", terrain |-> "flat" ],
       [ city |-> CityName.Hyderabad, humidity |-> "low", terrain |-> "flat" ],
       [ city |-> CityName.Ahmedabad, humidity |-> "low", terrain |-> "flat" ],
       [ city |-> CityName.Jaipur, humidity |-> "very_low", terrain |-> "flat" ],
       [ city |-> CityName.Shimla, humidity |-> "low", terrain |-> "steep_hills" ] >>

\* REFERENCE_FUEL_PRICES: for each fuel the <<city, price>> pairs in dict order
REFERENCE_FUEL_PRICES ==
    [ Petrol |->
        << <<CityName.Mumbai, 10421>>, <<CityName.Delhi, 9472>>, <<CityName.Chennai, 10029>>,
           <<CityName.Bangalore, 10286>>, <<CityName.Kolkata, 10541>>, <<CityName.Hyderabad, 10741>>,
           <<CityName.Pune, 10429>>, <<CityName.Ahmedabad, 9663>>, <<CityName.Kochi, 10771>>,
           <<CityName.Jaipur, 9972>>, <<CityName.Lucknow, 9476>>, <<CityName.Shimla, 10342>>,
           <<CityName.DEFAULT, 10000>> >>,
      Diesel |->
        << <<CityName.Mumbai, 9215>>, <<CityName.Delhi, 8762>>, <<CityName.Chennai, 9244>>,
           <<CityName.Bangalore, 8894>>, <<CityName.Kolkata, 9276>>, <<CityName.Hyderabad, 9565>>,
           <<CityName.Pune, 9142>>, <<CityName.Ahmedabad, 8933>>, <<CityName.Kochi, 9626>>,
           <<CityName.Jaipur, 9021>>, <<CityName.Lucknow, 8761>>, <<CityName.Shimla, 9110>>,
           <<CityName.DEFAULT, 9100>> >>,
      CNG |->
        << <<CityName.Mumbai, 7300>>, <<CityName.Delhi, 7409>>, <<CityName.Pune, 7550>>,
           <<CityName.Ahmedabad, 6815>>, <<CityName.DEFAULT, 7400>> >> ]

\* str.lower() and str.upper(), character by character
UpperCase == << "A", "B", "C", "D", "E", "F", "G", "H", "I", "J", "K", "L", "M",
                "N", "O", "P", "Q", "R", "S", "T", "U", "V", "W", "X", "Y", "Z" >>
LowerCase == << "a", "b", "c", "d", "e", "f", "g", "h", "i", "j", "k", "l", "m",
                "n", "o", "p", "q", "r", "s", "t", "u", "v", "w", "x", "y", "z" >>

MapChars(s, from, to) ==
    [ i \in 1..Len(s) |->
        IF \E k \in 1..Len(from) : from[k] = s[i]
        THEN to[CHOOSE k \in 1..Len(from) : from[k] = s[i]]
        ELSE s[i] ]

Lower(s) == MapChars(s, UpperCase, LowerCase)
Upper(s) == MapChars(s, LowerCase, UpperCase)

-----------------------------------------------------------------------------
(* The four tools (src/tools.py) *)

\* A keyword-argument mapping is a set of <<name, type, value>> triples: type
\* "num" with a number, type "str" with a text.  A tool call as the provider
\* sends it is [name, args, decodable]: decodable = FALSE is an argument
\* payload the loop cannot turn into a dict (Gemini: args is None; Groq:
\* malformed JSON text).  A parameter's value is the pair <<type, value>>.

Num(n) == << "num", n >>
Str(s) == << "str", s >>

\* how a call of a tool function ends: it returns `value`, or raises a
\* TypeError or another exception with message `msg`
Returns(value)  == [ kind |-> "value", msg |-> <<>>, value |-> value ]
RaisesTypeError(msg) == [ kind |-> "TypeError", msg |-> msg, value |-> <<>> ]
RaisesOther(msg)     == [ kind |-> "Exception", msg |-> msg, value |-> <<>> ]

NoLower == << "object has no attribute 'lower'" >>
NoUpper == << "object has no attribute 'upper'" >>
NotComparable == << "not supported between instances of 'float' and 'str'" >>
NotDivisible  == << "unsupported operand type(s) for /: 'str' and" >>
NotMultipliable == << "can't multiply sequence by non-int of type 'float'" >>

\* a fuel filter that wants the preference to be "any" or one of the car's
\* fuel types, letter for letter
FuelPasses_exact(fuel_preference, fuel_types) ==
    \/ fuel_preference = << "a", "n", "y" >>
    \/ \E i \in 1..Len(fuel_types) : fuel_types[i] = fuel_preference

\* the fuel filter of get_tata_cars: does a car with these fuel types pass
FuelPasses(fuel_preference, fuel_types) ==
    \/ Lower(fuel_preference) \in { <<"a", "n", "y">>,
           <<"n", "o", " ", "p", "r", "e", "f", "e", "r", "e", "n", "c", "e">> }
    \/ \E i \in 1..Len(fuel_types) : Contains(Lower(fuel_types[i]), Lower(fuel_preference))

\* for name, s in TATA_CARS_DB.items(): the cars not yet visited are `db`,
\* the cars appended so far are `matching`
RECURSIVE FilterCars(_, _, _, _, _, _)
FilterCars(db, matching, budget_min_lakhs, budget_max_lakhs, fuel_preference, min_seats) ==
    IF db = <<>> THEN Returns(matching)
    ELSE LET s    == Head(db)
             skip == FilterCars(Tail(db), matching, budget_min_lakhs,
                                budget_max_lakhs, fuel_preference, min_seats)
             keep == FilterCars(Tail(db), Append(matching, s), budget_min_lakhs,
                                budget_max_lakhs, fuel_preference, min_seats)
         IN  IF budget_max_lakhs[1] # "num" THEN RaisesTypeError(NotComparable)
             ELSE IF s.price_min > budget_max_lakhs[2] THEN skip
             ELSE IF budget_min_lakhs[1] # "num" THEN RaisesTypeError(NotComparable)
             ELSE IF s.price_max < budget_min_lakhs[2] THEN skip
             ELSE IF fuel_preference[1] # "str" THEN RaisesOther(NoLower)
             ELSE IF ~FuelPasses(fuel_preference[2], s.fuel_types) THEN skip
             ELSE IF min_seats[1] # "num" THEN RaisesTypeError(NotComparable)
             ELSE IF s.seats < min_seats[2] THEN skip
             ELSE keep

\* get_tata_cars: the returned dict; a matching car is its row of the table
\* (the dict built from it copies the row's fields)
get_tata_cars(db, budget_min_lakhs, budget_max_lakhs, fuel_preference, min_seats) ==
    LET r == FilterCars(db, <<>>, budget_min_lakhs, budget_max_lakhs,
                        fuel_preference, min_seats)
    IN  IF r.kind # "value" THEN r
        ELSE Returns([ total_matches |-> Len(r.value),
                       search_criteria |-> [ budget |-> << budget_min_lakhs, budget_max_lakhs >>,
                                             fuel |-> fuel_preference,
                                             min_seats |-> min_seats ],
                       matching_cars |-> r.value ])

\* get_city_weather: wttr is what wttr.in answers (up = FALSE: the request
\* fails, times out or is not answered with a 200 and a readable body).
\* CITY_PROFILES.get(city, ...) finds the row whose key equals the city.
ProfileOf(profiles, city) ==
    SelectSeq(profiles, LAMBDA p : city[1] = "str" /\ p.city = city[2])

get_city_weather(profiles, wttr, city) ==
    LET found   == ProfileOf(profiles, city)
        terrain == IF found = <<>> THEN "flat" ELSE found[1].terrain
        hum     == IF found = <<>> THEN "moderate" ELSE found[1].humidity
        humid   == hum \in { "very_high", "high" }
    IN  IF wttr.up
        THEN Returns([ city |-> city, temperature_c |-> wttr.temp_C,
                       humidity_pct |-> wttr.humidity, description |-> wttr.desc,
                       terrain |-> terrain,
                       ac_importance |->
                           IF wttr.humidity > 70 \/ wttr.temp_C > 35 THEN "HIGH"
                           ELSE IF wttr.temp_C > 28 THEN "MODERATE" ELSE "LOW",
                       source |-> "wttr.in (live)" ])
        ELSE Returns([ city |-> city, temperature_c |-> IF humid THEN 32 ELSE 25,
                       humidity_pct |->
                           CASE hum = "very_high" -> 85 [] hum = "high" -> 70
                             [] hum = "moderate" -> 55 [] hum = "low" -> 35
                             [] hum = "very_low" -> 20,
                       description |-> "Estimated from city climate profile",
                       terrain |-> terrain,
                       ac_importance |->
                           IF humid THEN "HIGH"
                           ELSE IF hum = "moderate" THEN "MODERATE" ELSE "LOW",
                       source |-> "city_profile_fallback" ])

\* fuel_key = {...}.get(fuel_type.lower(), "Petrol")
FuelKey(fuel_type) ==
    CASE Lower(fuel_type) = Lower(FuelName.Diesel) -> "Diesel"
      [] Lower(fuel_type) = Lower(FuelName.CNG)    -> "CNG"
      [] OTHER                                     -> "Petrol"

\* city_key = next((k for k in prices if k.lower() in city.lower()), "DEFAULT")
PriceIn(prices, city) ==
    LET hits == SelectSeq(prices, LAMBDA kv : Contains(Lower(city), Lower(kv[1])))
        dflt == SelectSeq(prices, LAMBDA kv : kv[1] = CityName.DEFAULT)
    IN  IF hits # <<>> THEN hits[1][2] ELSE dflt[1][2]

\* get_fuel_price: the monthly and annual estimates are arithmetic on
\* price_per_litre and fuel_key and are not kept
get_fuel_price(fuel_prices, city, fuel_type) ==
    IF fuel_type[1] # "str" THEN RaisesOther(NoLower)
    ELSE IF city[1] # "str" THEN RaisesOther(NoLower)
    ELSE LET fuel_key == FuelKey(fuel_type[2]) IN
         Returns([ city |-> city, fuel_type |-> fuel_key,
                   price_per_litre |-> PriceIn(fuel_prices[fuel_key], city[2]),
                   source |-> "reference_data_feb2026" ])

\* match = next((k for k in TATA_CARS_DB if car_name.lower() in k.lower()
\*               or k.lower() in car_name.lower()), None): the matching rows
Matches(db, car_name) ==
    SelectSeq(db, LAMBDA s : \/ Contains(Lower(s.name), Lower(car_name))
                             \/ Contains(Lower(car_name), Lower(s.name)))

\* calculate_tco: the amounts of the returned dict are arithmetic on the
\* values kept here (the car's row, the fuel price, daily_km and
\* ownership_years) and are not computed
calculate_tco(db, fuel_prices, car_name, city, daily_km, ownership_years, fuel_type) ==
    IF car_name[1] # "str" THEN RaisesOther(NoLower)
    ELSE LET found == Matches(db, car_name[2]) IN
    IF found = <<>> THEN Returns([ error |-> << "Car '" >> \o car_name[2] \o << "' not found." >> ])
    ELSE IF fuel_type[1] # "str" THEN RaisesOther(NoUpper)
    ELSE LET ev == Upper(fuel_type[2]) = FuelName.EV
             fd == get_fuel_price(fuel_prices, city, fuel_type)
         IN
    IF ~ev /\ fd.kind # "value" THEN fd
    ELSE IF daily_km[1] # "num" THEN RaisesTypeError(NotDivisible)
    ELSE IF ownership_years[1] # "num" THEN RaisesTypeError(NotMultipliable)
    ELSE Returns([ car |-> found[1].name, ex_showroom_price |-> found[1].price_min,
                   fuel |-> IF ev THEN << >> ELSE << fd.value.price_per_litre >>,
                   mileage |-> found[1].mileage_kmpl,
                   daily_km_assumption |-> daily_km[2],
                   ownership_years |-> ownership_years[2] ])

-----------------------------------------------------------------------------
(* Tool registry: TOOL_MAP and dispatch (src/tools.py) *)

ArgsCars == { <<"budget_min_lakhs", "num", 1000>>, <<"budget_max_lakhs", "num", 1600>> }
ArgsNone == {}
ArgsCityNum == { <<"city", "num", 500>> }

Keys(args) == { a[1] : a \in args }

\* the value passed for parameter k, or the parameter's default
Param(args, k, default) ==
    IF k \in Keys(args)
    THEN LET a == CHOOSE a \in args : a[1] = k IN << a[2], a[3] >>
    ELSE default

\* a registry without calculate_tco
TOOL_NAMES_without_tco == << "get_city_weather", "get_tata_cars", "get_fuel_price" >>

TOOL_NAMES == << "get_city_weather", "get_tata_cars", "get_fuel_price", "calculate_tco" >>

TOOL_MAP == { TOOL_NAMES[i] : i \in 1..Len(TOOL_NAMES) }

\* the def lines of the four tools: required and defaulted parameters
Required(tool_name) ==
    CASE tool_name = "get_city_weather" -> {"city"}
      [] tool_name = "get_tata_cars"    -> {"budget_min_lakhs", "budget_max_lakhs"}
      [] tool_name = "get_fuel_price"   -> {"city"}
      [] tool_name = "calculate_tco"    -> {"car_name", "city", "daily_km"}

Defaulted(tool_name) ==
    CASE tool_name = "get_city_weather" -> {}
      [] tool_name = "get_tata_cars"    -> {"fuel_preference", "min_seats"}
      [] tool_name = "get_fuel_price"   -> {"fuel_type"}
      [] tool_name = "calculate_tco"    -> {"ownership_years", "fuel_type"}

\* TOOL_MAP[tool_name](**args) binds: every required parameter given, no unknown keyword
Binds(tool_name, args) ==
    /\ Required(tool_name) \subseteq Keys(args)
    /\ Keys(args) \subseteq Required(tool_name) \cup Defaulted(tool_name)

\* what the call TOOL_MAP[tool_name](**args) does, reading the reference
\* tables and wttr.in as they are now
ToolCall(tool_name, args) ==
    IF ~Binds(tool_name, args)
    THEN RaisesTypeError(<<"missing or unexpected keyword argument">>)
    ELSE CASE tool_name = "get_city_weather" ->
                get_city_weather(tables.profiles, weather, Param(args, "city", <<>>))
           [] tool_name = "get_tata_cars" ->
                get_tata_cars(tables.cars,
                              Param(args, "budget_min_lakhs", <<>>),
                              Param(args, "budget_max_lakhs", <<>>),
                              Param(args, "fuel_preference", Str(<<"a", "n", "y">>)),
                              Param(args, "min_seats", Num(400)))
           [] tool_name = "get_fuel_price" ->
                get_fuel_price(tables.fuel_prices, Param(args, "city", <<>>),
                               Param(args, "fuel_type", Str(FuelName.Petrol)))
           [] tool_name = "calculate_tco" ->
                calculate_tco(tables.cars, tables.fuel_prices,
                              Param(args, "car_name", <<>>), Param(args, "city", <<>>),
                              Param(args, "daily_km", <<>>),
                              Param(args, "ownership_years", Num(500)),
                              Param(args, "fuel_type", Str(FuelName.Petrol)))

\* str(list(TOOL_MAP.keys()))
RECURSIVE ListRepr(_)
ListRepr(names) ==
    IF names = <<>> THEN <<>>
    ELSE <<"'", names[1], "'">> \o (IF Len(names) > 1 THEN <<", ">> ELSE <<>>)
         \o ListRepr(Tail(names))

\* how dispatch ends: it returns the serialization of the object `out`, or an
\* exception leaves it; `called` lists the tool functions it entered
DispatchReturns(out, called) == [ raised |-> FALSE, msg |-> <<>>, out |-> out, called |-> called ]
DispatchRaises(msg, called)  == [ raised |-> TRUE, msg |-> msg, out |-> <<>>, called |-> called ]

\* a dispatcher whose first except clause is missing: a TypeError leaves it
DispatchExcept_no_typeerror_clause(tool_name, args, r, called) ==
    IF r.kind = "TypeError" THEN DispatchRaises(r.msg, called)
    ELSE DispatchReturns([ error |-> r.msg, tool |-> tool_name ], called)

\* a dispatcher whose second except clause is missing: an exception other than
\* TypeError leaves it
DispatchExcept_no_exception_clause(tool_name, args, r, called) ==
    IF r.kind = "TypeError"
    THEN DispatchReturns([ error |-> <<"Bad arguments for ", tool_name, ": ">> \o r.msg,
                           args_received |-> args ], called)
    ELSE DispatchRaises(r.msg, called)

\* the two except clauses of dispatch, for the exception `r` of the tool call
DispatchExcept(tool_name, args, r, called) ==
    IF r.kind = "TypeError"
    THEN DispatchReturns([ error |-> <<"Bad arguments for ", tool_name, ": ">> \o r.msg,
                           args_received |-> args ], called)
    ELSE DispatchReturns([ error |-> r.msg, tool |-> tool_name ], called)

\* dispatch(tool_name, args), with how it ends
DispatchRun(tool_name, args) ==
    IF tool_name \notin TOOL_MAP
    THEN DispatchReturns([ error |-> <<"Unknown tool: '", tool_name, "'. Available: ", "[">>
                                     \o ListRepr(TOOL_NAMES) \o <<"]">> ], <<>>)
    ELSE LET r      == ToolCall(tool_name, args)
             called == IF Binds(tool_name, args) THEN << tool_name >> ELSE <<>>
         IN  IF r.kind = "value" THEN DispatchReturns(r.value, called)
             ELSE DispatchExcept(tool_name, args, r, called)

\* dispatch(tool_name, args): the JSON object whose serialization it returns
dispatch(tool_name, args) == DispatchRun(tool_name, args).out

-----------------------------------------------------------------------------
(* Environment: what the caller passes and what the providers answer *)

\* the reference tables as database.py defines them
ReferenceTables ==
    [ cars |-> TATA_CARS_DB, profiles |-> CITY_PROFILES, fuel_prices |-> REFERENCE_FUEL_PRICES ]

\* answers of wttr.in: none, or the current condition of a 200 response
WttrDown == [ up |-> FALSE, temp_C |-> 0, humidity |-> 0, desc |-> "" ]

WeatherStates ==
    { WttrDown,
      [ up |-> TRUE, temp_C |-> 33, humidity |-> 78, desc |-> "Humid" ],
      [ up |-> TRUE, temp_C |-> 24, humidity |-> 40, desc |-> "Clear" ] }

Queries == { "Best Tata car under 16 lakhs?", "Tata EV for Pune?" }

CallGood        == [ name |-> "get_tata_cars",     args |-> ArgsCars,    decodable |-> TRUE ]
CallUnknown     == [ name |-> "delete_everything", args |-> ArgsNone,    decodable |-> TRUE ]
CallBadArgs     == [ name |-> "get_tata_cars",     args |-> ArgsNone,    decodable |-> TRUE ]
CallToolFails   == [ name |-> "get_fuel_price",    args |-> ArgsCityNum, decodable |-> TRUE ]
CallUndecodable == [ name |-> "get_city_weather",  args |-> ArgsNone,    decodable |-> FALSE ]

Calls == { CallGood, CallUnknown, CallBadArgs, CallToolFails, CallUndecodable }

\* the non-empty call lists of at most n calls
CallLists(n) == UNION { [1..k -> Calls] : k \in 1..n }

Text1 == <<"Top pick: Tata Nexon">>
Text2 == <<"Runner-up: Tata Punch">>

\* A Gemini response is the candidate's content.parts: its function calls and
\* its non-empty texts, each in order.  `used` is the number of calls the
\* provider has asked for so far in this loop.
GeminiResponses(used) ==
    { [ calls |-> cs, texts |-> <<>> ] :
        cs \in CallLists(MaxVariedCalls - used) \cup { <<CallGood>> } }
    \cup { [ calls |-> cs, texts |-> <<Text1>> ] :
             cs \in { c \in CallLists(MaxVariedCalls - used) : c = <<CallGood>> } }
    \cup { [ calls |-> <<>>, texts |-> ts ] : ts \in { <<>>, <<Text1>>, <<Text1, Text2>> } }

\* A Groq response is choices[0]: message.tool_calls ([] when absent),
\* message.content (<<>> when None or "") and finish_reason.
GroqResponses(used) ==
    { [ tool_calls |-> cs, content |-> <<>>, finish_reason |-> "tool_calls" ] :
        cs \in CallLists(MaxVariedCalls - used) \cup { <<CallGood>> } }
    \cup { [ tool_calls |-> cs, content |-> Text1, finish_reason |-> "tool_calls" ] :
             cs \in { c \in CallLists(MaxVariedCalls - used) : c = <<CallGood>> } }
    \cup { [ tool_calls |-> <<>>, content |-> c, finish_reason |-> f ] :
             c \in { <<>>, Text1 }, f \in { "stop", "tool_calls" } }
    \cup { [ tool_calls |-> <<CallGood>>, content |-> c, finish_reason |-> f ] :
             c \in { <<>>, Text1 }, f \in { "stop", "length" } }

\* messages of the exceptions a provider call (or the handling of its
\* response) raises
ExcMessages ==
    { <<"429", " ", "RESOURCE_EXHAUSTED">>,
      <<"RESOURCE_EXHAUSTED">>,
      <<"quota", " ", "exceeded">>,
      <<"rate", " ", "limit", " ", "reached">>,
      <<"rate", "_", "limit", "_", "exceeded">>,
      <<"Quota", " ", "exceeded">>,
      <<"Rate", " ", "Limit">>,
      <<"500", " ", "Internal Server Error">>,
      <<>> }

\* dict(fc.args) with fc.args None (Gemini)
GeminiDecodeError == <<"'NoneType' object is not iterable">>
\* json.loads(tc.function.arguments) on malformed JSON (Groq)
GroqDecodeError == <<"Expecting value: line 1 column 1 (char 0)">>

-----------------------------------------------------------------------------
(* run_agent: the decisions of the fallback orchestrator *)

\* a classifier that knows only "429" and "quota"
is_quota_two_keywords(msg) ==
    Contains(msg, <<"429">>) \/ Contains(msg, <<"quota">>)

\* mutant: every exception of the primary counts as a quota error
is_quota_any_message(msg) == msg = msg

\* is_quota = any(kw in err_str for kw in _QUOTA_KEYWORDS)
is_quota(msg) == \E kw \in QUOTA_KEYWORDS : Contains(msg, kw)

\* the "Groq fallback" section: run the secondary when there is one
FallbackTarget(grq) == IF grq THEN "groq_fallback" ELSE "none"

\* the branch run_agent takes on entry
FirstBranch(force, gem, grq) ==
    IF force /\ grq THEN "groq_forced"
    ELSE IF gem THEN "gemini"
    ELSE FallbackTarget(grq)

\* an except clause that falls back on every error of the primary
OnPrimaryException_always_falls_back(msg, grq) == FallbackTarget(grq)

\* the except clause around gemini_agent.run
OnPrimaryException(msg, grq) ==
    IF ~is_quota(msg) THEN "error" ELSE FallbackTarget(grq)

\* force-Groq mode marking its result as a fallback
ForcedResult_marks_fallback(res) == [ res EXCEPT !.fallback_used = TRUE ]

\* result.fallback_used = False; return result   (force-Groq mode)
ForcedResult(res) == [ res EXCEPT !.fallback_used = FALSE ]

\* a fallback section that forgets to set the flag
FallbackResult_flag_not_set(res) == res

\* result.fallback_used = True; return result    (Groq fallback section)
FallbackResult(res) == [ res EXCEPT !.fallback_used = TRUE ]

\* a fallback section that reports the secondary's exception as the primary's
SecondaryError_blames_primary(msg) == AgentError(msg, "gemini")

\* the except clause around groq_agent.run in the fallback section
SecondaryError(msg) == AgentError(msg, "groq")

\* the except clause's result for a primary error that is not a quota error
PrimaryError(msg) == AgentError(msg, "gemini")

\* a no-provider result without a message
NoProviderResult_empty_error == AgentError(<<>>, "none")

NoProviderResult == AgentError(NoProviderError, "none")

-----------------------------------------------------------------------------
(* The agent loops: pieces shared by the actions *)

\* a loop that runs one iteration too many
LoopContinues_one_more(s) == s < MAX_STEPS

\* mutant of LoopContinues: the loop gives up one iteration early
LoopContinues_stops_early(s) == s + 2 < MAX_STEPS

\* for step in range(self.MAX_STEPS): is there another iteration after `s`
LoopContinues(s) == s + 1 < MAX_STEPS

\* a loop that takes the calls of a turn from the end of the list
NextCall_last_first(calls) == calls[Len(calls)]

\* for fc in calls: / for tc in msg.tool_calls: the call the inner loop takes next
NextCall(calls) == Head(calls)

\* a log entry numbered from zero
LogEntry_zero_indexed(s, name, args) == [ step |-> s, tool |-> name, args |-> args ]

\* the dict appended to tool_log for a call made in iteration `s`
LogEntry(s, name, args) == [ step |-> s + 1, tool |-> name, args |-> args ]

\* an exhaustion reported as an error
Exhausted_as_error(log, model, provider) ==
    AgentResult(<<>>, log, model, provider, FALSE, Some(MaxStepsAnswer))

\* the result both loops return after the for loop ends or breaks
Exhausted(log, model, provider) ==
    AgentResult(MaxStepsAnswer, log, model, provider, FALSE, None)

\* calls = [p.function_call ...]; if calls:
GeminiWantsTools(resp) == resp.calls # <<>>

\* mutant: a response with content is taken as the final answer
GroqWantsTools_unless_content(resp) ==
    resp.finish_reason = "tool_calls" /\ resp.tool_calls # <<>> /\ resp.content = <<>>

\* if finish_reason == "tool_calls" and msg.tool_calls:
GroqWantsTools(resp) == resp.finish_reason = "tool_calls" /\ resp.tool_calls # <<>>

GeminiInitial(q) == << [ role |-> "user", text |-> q ] >>

GroqInitial(q) ==
    << [ role |-> "system", content |-> SYSTEM_PROMPT ],
       [ role |-> "user", content |-> q ] >>

NoTurn == [ by |-> "none", calls |-> <<>>, base |-> 0, step |-> 0,
            tools |-> FALSE, handled |-> 0, aborted |-> FALSE, empty |-> FALSE ]

-----------------------------------------------------------------------------
(* State machine *)

NoCarsCall == [ budget_min_lakhs |-> 0, budget_max_lakhs |-> 0, fuel_preference |-> <<>>,
                min_seats |-> 0, returned |-> <<>> ]

\* the quota classification has not been asked on its own
NoQuotaCall == [ err_str |-> <<>>, is_quota |-> <<>> ]

\* no request is being served by another thread
NoRequests == inflight = <<>> /\ frames = <<>>

\* run_agent has not been called
Fresh ==
    /\ pc = "start"
    /\ step = 0
    /\ conversation = <<>>
    /\ tool_log = <<>>
    /\ pending = <<>>
    /\ tr_parts = <<>>
    /\ err_str = None
    /\ outcome = "running"
    /\ result = NoResult
    /\ raised = None
    /\ sends = 0
    /\ runs = [ gemini |-> 0, groq |-> 0 ]
    /\ turn = NoTurn

Init ==
    /\ query \in Queries
    /\ gemini_agent \in BOOLEAN
    /\ groq_agent \in BOOLEAN
    /\ force_groq \in BOOLEAN
    /\ Fresh
    /\ tables = ReferenceTables
    /\ weather = WttrDown      \* no call of Calls reads it
    /\ dispatched = <<>>
    /\ cars_call = NoCarsCall
    /\ quota_call = NoQuotaCall
    /\ both = <<>>
    /\ NoRequests

\* state outside run_agent, which run_agent and the loops do not write
Outside == << tables, weather, dispatched, cars_call, inflight, frames, quota_call, both >>

Arguments == << query, gemini_agent, groq_agent, force_groq >>

\* run_agent ends: it returns `res` or lets the exception `exc` escape
Finish(out, res, exc) ==
    /\ pc' = "done"
    /\ outcome' = out
    /\ result' = res
    /\ raised' = exc
    /\ step' = 0
    /\ conversation' = <<>>
    /\ tool_log' = <<>>
    /\ pending' = <<>>
    /\ tr_parts' = <<>>
    /\ UNCHANGED runs

\* mutant: the loop that is entered goes on with the log it finds
StartLoop_keeps_log(p, at) ==
    /\ pc' = at
    /\ step' = 0
    /\ conversation' = (IF p = "gemini" THEN GeminiInitial(query) ELSE GroqInitial(query))
    /\ tool_log' = tool_log
    /\ pending' = <<>>
    /\ tr_parts' = <<>>
    /\ runs' = [ runs EXCEPT ![p] = @ + 1 ]
    /\ UNCHANGED << outcome, result, raised >>

\* agent.run(query) is entered: the loop's locals are created
StartLoop(p, at) ==
    /\ pc' = at
    /\ step' = 0
    /\ conversation' = (IF p = "gemini" THEN GeminiInitial(query) ELSE GroqInitial(query))
    /\ tool_log' = <<>>
    /\ pending' = <<>>
    /\ tr_parts' = <<>>
    /\ runs' = [ runs EXCEPT ![p] = @ + 1 ]
    /\ UNCHANGED << outcome, result, raised >>

Goto(branch, msg) ==
    CASE branch = "groq_forced"   -> StartLoop("groq", "groq_forced")
      [] branch = "gemini"        -> StartLoop("gemini", "gemini")
      [] branch = "groq_fallback" -> StartLoop("groq", "groq_fallback")
      [] branch = "none"          -> Finish("returned", NoProviderResult, None)
      [] branch = "error"         -> Finish("returned", PrimaryError(msg), None)

\* run_agent is called
RunAgent ==
    /\ pc = "start"
    /\ Goto(FirstBranch(force_groq, gemini_agent, groq_agent), <<>>)
    /\ UNCHANGED << Arguments, err_str, sends, turn >>
    /\ UNCHANGED Outside

\* the running loop returns `res` to run_agent
LoopReturns(res) ==
    /\ CASE pc = "gemini"        -> Finish("returned", res, None)
         [] pc = "groq_forced"   -> Finish("returned", ForcedResult(res), None)
         [] pc = "groq_fallback" -> Finish("returned", FallbackResult(res), None)
    /\ UNCHANGED err_str

\* an exception with message `msg` leaves the running loop
LoopRaises(msg) ==
    CASE pc = "gemini" ->
           /\ err_str' = Some(msg)
           /\ Goto(OnPrimaryException(msg, groq_agent), msg)
      [] pc = "groq_fallback" ->
           /\ Finish("returned", SecondaryError(msg), None)
           /\ UNCHANGED err_str
      [] pc = "groq_forced" ->
           /\ Finish("raised", NoResult, Some(msg))
           /\ UNCHANGED err_str

RunAgentLocals == << pc, err_str, outcome, result, raised, runs >>

\* the step leaves the primary's loop and enters the secondary's
LoopSwitched == pc = "gemini" /\ pc' = "groq_fallback"

(* GeminiAgent.run *)

\* response = self.client.models.generate_content(...) returns, and the
\* branch on calls / texts up to the start of the inner for loop
GeminiSend ==
    /\ pc = "gemini"
    /\ pending = <<>>
    /\ \E resp \in GeminiResponses(Len(tool_log)) :
         /\ sends' = sends + 1
         /\ turn' = [ by |-> "gemini", calls |-> resp.calls, base |-> Len(tool_log),
                      step |-> step, tools |-> GeminiWantsTools(resp),
                      handled |-> 0, aborted |-> FALSE,
                      empty |-> resp.calls = <<>> /\ resp.texts = <<>> ]
         /\ IF GeminiWantsTools(resp)
            THEN /\ conversation' = Append(conversation,
                        [ role |-> "model", calls |-> resp.calls, texts |-> resp.texts ])
                 /\ pending' = resp.calls
                 /\ tr_parts' = <<>>
                 /\ UNCHANGED << step, tool_log, RunAgentLocals >>
            ELSE IF resp.texts # <<>>
            THEN LoopReturns(AgentResult(JoinLines(resp.texts), tool_log,
                                         GEMINI_MODEL, "gemini", FALSE, None))
            ELSE LoopReturns(Exhausted(tool_log, GEMINI_MODEL, "gemini"))
    /\ UNCHANGED Arguments
    /\ UNCHANGED Outside

\* generate_content raises, or the response has no usable candidate
GeminiSendRaises ==
    /\ pc = "gemini"
    /\ pending = <<>>
    /\ \E msg \in ExcMessages : LoopRaises(msg)
    /\ sends' = IF LoopSwitched THEN 0 ELSE sends + 1
    /\ turn' = IF LoopSwitched THEN [ NoTurn EXCEPT !.base = Len(tool_log) ] ELSE NoTurn
    /\ UNCHANGED Arguments
    /\ UNCHANGED Outside

\* one iteration of `for fc in calls:`, and what follows the last one
GeminiToolCall ==
    /\ pc = "gemini"
    /\ pending # <<>>
    /\ LET fc == NextCall(pending) IN
       IF ~fc.decodable
       THEN /\ LoopRaises(GeminiDecodeError)
            /\ turn' = [ turn EXCEPT !.aborted = TRUE ]
       ELSE IF DispatchRun(fc.name, fc.args).raised
       THEN /\ LoopRaises(DispatchRun(fc.name, fc.args).msg)
            /\ turn' = [ turn EXCEPT !.aborted = TRUE ]
       ELSE LET res   == dispatch(fc.name, fc.args)
                log   == Append(tool_log, LogEntry(step, fc.name, fc.args))
                parts == Append(tr_parts, [ name |-> fc.name, response |-> res ])
                rest  == Tail(pending)
            IN  /\ turn' = [ turn EXCEPT !.handled = @ + 1 ]
                /\ IF rest # <<>>
                   THEN /\ tool_log' = log
                        /\ tr_parts' = parts
                        /\ pending' = rest
                        /\ UNCHANGED << step, conversation, RunAgentLocals >>
                   ELSE IF LoopContinues(step)
                   THEN /\ tool_log' = log
                        /\ tr_parts' = <<>>
                        /\ pending' = <<>>
                        /\ conversation' = Append(conversation,
                               [ role |-> "tool", parts |-> parts ])
                        /\ step' = step + 1
                        /\ UNCHANGED RunAgentLocals
                   ELSE LoopReturns(Exhausted(log, GEMINI_MODEL, "gemini"))
    /\ sends' = IF LoopSwitched THEN 0 ELSE sends
    /\ UNCHANGED Arguments
    /\ UNCHANGED Outside

(* GroqAgent.run *)

GroqRunning == pc \in { "groq_forced", "groq_fallback" }

\* response = self.client.chat.completions.create(...) returns;
\* messages.append(msg) and the branch on finish_reason / tool_calls / content
GroqSend ==
    /\ GroqRunning
    /\ pending = <<>>
    /\ \E resp \in GroqResponses(Len(tool_log)) :
         /\ sends' = sends + 1
         /\ turn' = [ by |-> "groq", calls |-> resp.tool_calls, base |-> Len(tool_log),
                      step |-> step, tools |-> GroqWantsTools(resp),
                      handled |-> 0, aborted |-> FALSE,
                      empty |-> resp.tool_calls = <<>> /\ resp.content = <<>> ]
         /\ IF GroqWantsTools(resp)
            THEN /\ conversation' = Append(conversation,
                        [ role |-> "assistant", tool_calls |-> resp.tool_calls,
                          content |-> resp.content ])
                 /\ pending' = resp.tool_calls
                 /\ UNCHANGED << step, tool_log, tr_parts, RunAgentLocals >>
            ELSE IF resp.content # <<>>
            THEN LoopReturns(AgentResult(resp.content, tool_log,
                                         GROQ_MODEL, "groq", FALSE, None))
            ELSE LoopReturns(Exhausted(tool_log, GROQ_MODEL, "groq"))
    /\ UNCHANGED Arguments
    /\ UNCHANGED Outside

\* completions.create raises, or the response has no usable choice
GroqSendRaises ==
    /\ GroqRunning
    /\ pending = <<>>
    /\ \E msg \in ExcMessages : LoopRaises(msg)
    /\ sends' = sends + 1
    /\ turn' = NoTurn
    /\ UNCHANGED Arguments
    /\ UNCHANGED Outside

\* one iteration of `for tc in msg.tool_calls:`, and what follows the last one.
\* tc.id is the call's position in the response.
GroqToolCall ==
    /\ GroqRunning
    /\ pending # <<>>
    /\ LET tc == NextCall(pending) IN
       IF ~tc.decodable
       THEN /\ LoopRaises(GroqDecodeError)
            /\ turn' = [ turn EXCEPT !.aborted = TRUE ]
       ELSE IF DispatchRun(tc.name, tc.args).raised
       THEN /\ LoopRaises(DispatchRun(tc.name, tc.args).msg)
            /\ turn' = [ turn EXCEPT !.aborted = TRUE ]
       ELSE LET fn_name == tc.name
                fn_args == tc.args
                res     == dispatch(fn_name, fn_args)
                log     == Append(tool_log, LogEntry(step, fn_name, fn_args))
                id      == Len(turn.calls) - Len(pending) + 1
                msgs    == Append(conversation,
                               [ role |-> "tool", tool_call_id |-> id, content |-> res ])
                rest    == Tail(pending)
            IN  /\ turn' = [ turn EXCEPT !.handled = @ + 1 ]
                /\ IF rest # <<>> \/ LoopContinues(step)
                   THEN /\ tool_log' = log
                        /\ conversation' = msgs
                        /\ pending' = rest
                        /\ step' = IF rest # <<>> THEN step ELSE step + 1
                        /\ UNCHANGED << tr_parts, RunAgentLocals >>
                   ELSE LoopReturns(Exhausted(log, GROQ_MODEL, "groq"))
    /\ UNCHANGED << Arguments, sends >>
    /\ UNCHANGED Outside

Next ==
    \/ RunAgent
    \/ GeminiSend
    \/ GeminiSendRaises
    \/ GeminiToolCall
    \/ GroqSend
    \/ GroqSendRaises
    \/ GroqToolCall

Spec == Init /\ [][Next]_vars

-----------------------------------------------------------------------------
(* The tool registry on its own: calls of dispatch, whoever makes them *)

NexonName == << "T", "a", "t", "a", " ", "N", "e", "x", "o", "n" >>

\* the calls made: every way dispatch can end, for each tool
ToolRequests ==
    { [ name |-> "delete_everything", args |-> ArgsNone ],
      [ name |-> "delete_everything", args |-> ArgsCars ],
      [ name |-> "get_tata_cars", args |-> ArgsCars ],
      [ name |-> "get_tata_cars", args |-> ArgsNone ],
      [ name |-> "get_tata_cars", args |-> ArgsCars \cup { <<"colour", "str", <<"r", "e", "d">>>> } ],
      [ name |-> "get_tata_cars", args |-> { <<"budget_min_lakhs", "num", 1000>>,
                                             <<"budget_max_lakhs", "str", <<"1", "6">>>> } ],
      [ name |-> "get_tata_cars", args |-> ArgsCars \cup { <<"fuel_preference", "num", 500>> } ],
      [ name |-> "get_tata_cars", args |-> ArgsCars \cup { <<"fuel_preference", "str", Lower(FuelName.Petrol)>> } ],
      [ name |-> "get_tata_cars", args |-> ArgsCars \cup { <<"min_seats", "str", <<"7">>>> } ],
      [ name |-> "get_fuel_price", args |-> ArgsCityNum ],
      [ name |-> "get_fuel_price", args |-> { <<"city", "str", CityName.Pune>> } ],
      [ name |-> "get_fuel_price", args |-> { <<"city", "str", Lower(CityName.Pune)>>,
                                              <<"fuel_type", "str", Lower(FuelName.Diesel)>> } ],
      [ name |-> "get_fuel_price", args |-> { <<"city", "str", <<"G", "o", "a">>>>,
                                              <<"fuel_type", "num", 100>> } ],
      [ name |-> "get_city_weather", args |-> { <<"city", "str", CityName.Mumbai>> } ],
      [ name |-> "get_city_weather", args |-> { <<"city", "str", <<"G", "o", "a">>>> } ],
      [ name |-> "get_city_weather", args |-> ArgsCityNum ],
      [ name |-> "get_city_weather", args |-> ArgsNone ],
      [ name |-> "calculate_tco", args |-> { <<"car_name", "str", NexonName>>,
                                             <<"city", "str", CityName.Pune>>,
                                             <<"daily_km", "num", 4000>> } ],
      [ name |-> "calculate_tco", args |-> { <<"car_name", "str", <<"n", "e", "x", "o", "n">>>>,
                                             <<"city", "num", 500>>,
                                             <<"daily_km", "num", 4000>>,
                                             <<"fuel_type", "str", Lower(FuelName.EV)>> } ],
      [ name |-> "calculate_tco", args |-> { <<"car_name", "str", <<"M", "a", "r", "u", "t", "i">>>>,
                                             <<"city", "str", CityName.Pune>>,
                                             <<"daily_km", "num", 4000>> } ],
      [ name |-> "calculate_tco", args |-> { <<"car_name", "str", NexonName>>,
                                             <<"city", "str", CityName.Pune>>,
                                             <<"daily_km", "str", <<"4", "0">>>> } ],
      [ name |-> "calculate_tco", args |-> { <<"car_name", "num", 100>>,
                                             <<"city", "str", CityName.Pune>>,
                                             <<"daily_km", "num", 4000>> } ],
      [ name |-> "calculate_tco", args |-> { <<"car_name", "str", NexonName>>,
                                             <<"city", "num", 500>>,
                                             <<"daily_km", "num", 4000>> } ] }

\* what is kept of a direct call: the call, wttr.in's answer at the time, how
\* the tool function ended ("none": no tool function was called) and how
\* dispatch ended
DispatchRecord(c) ==
    [ name |-> c.name, args |-> c.args, wttr |-> weather,
      tool |-> IF c.name \in TOOL_MAP /\ Binds(c.name, c.args)
               THEN ToolCall(c.name, c.args).kind ELSE "none",
      run  |-> DispatchRun(c.name, c.args) ]

\* a car filter that removes the cars it returns from the table
TablesAfter_consumes_matches(tool_name, args, t) ==
    IF tool_name = "get_tata_cars" /\ ToolCall(tool_name, args).kind = "value"
    THEN [ t EXCEPT !.cars = SelectSeq(t.cars, LAMBDA s :
               \A i \in 1..Len(ToolCall(tool_name, args).value.matching_cars) :
                   ToolCall(tool_name, args).value.matching_cars[i] # s) ]
    ELSE t

\* the reference tables after a call: the tools only read them
TablesAfter(tool_name, args, t) == t

AgentState == << query, gemini_agent, groq_agent, force_groq, pc, step, conversation,
                 tool_log, pending, tr_parts, err_str, outcome, result, raised,
                 sends, runs, turn >>

ToolsInit ==
    /\ query = ""
    /\ gemini_agent = FALSE
    /\ groq_agent = FALSE
    /\ force_groq = FALSE
    /\ Fresh
    /\ tables = ReferenceTables
    /\ weather \in WeatherStates
    /\ dispatched = <<>>
    /\ cars_call = NoCarsCall
    /\ quota_call = NoQuotaCall
    /\ both = <<>>
    /\ NoRequests

\* dispatch(name, args) is called
DispatchDirectly ==
    /\ \E c \in ToolRequests :
         /\ dispatched' = (IF dispatched = <<>> THEN <<>>
                           ELSE << dispatched[Len(dispatched)] >>)
                          \o << DispatchRecord(c) >>
         /\ tables' = TablesAfter(c.name, c.args, tables)
    /\ UNCHANGED << weather, cars_call, AgentState, inflight, frames, quota_call, both >>

\* time passes: wttr.in answers differently from now on
WeatherChanges ==
    /\ \E w \in WeatherStates \ { weather } : weather' = w
    /\ UNCHANGED << tables, dispatched, cars_call, AgentState, inflight, frames, quota_call, both >>

ToolsNext ==
    \/ DispatchDirectly
    \/ WeatherChanges

SpecTools == ToolsInit /\ [][ToolsNext]_vars

-----------------------------------------------------------------------------
(* get_tata_cars on its own *)

\* the arguments of the calls: budgets around the prices of the table
\* (10.0, 15.5, 16.0, 16.18, 16.19 ...), fuels as a caller may write them
BudgetMins == { 0, 1000, 1550, 1600, 2735 }
BudgetMaxs == { 559, 1000, 1600, 1618, 1619, 3000 }
SeatCounts == { 400, 500, 700, 800 }
FuelPreferences ==
    { FuelName.Petrol, FuelName.Diesel, FuelName.CNG, FuelName.EV,
      Lower(FuelName.Petrol), Upper(FuelName.Diesel),
      << "a", "n", "y" >>, << "A", "n", "y" >>,
      << "n", "o", " ", "p", "r", "e", "f", "e", "r", "e", "n", "c", "e" >>,
      << "e" >>, << >>,
      << "E", "l", "e", "c", "t", "r", "i", "c" >> }

CarsInit ==
    /\ query = ""
    /\ gemini_agent = FALSE
    /\ groq_agent = FALSE
    /\ force_groq = FALSE
    /\ Fresh
    /\ tables = ReferenceTables
    /\ weather = WttrDown
    /\ dispatched = <<>>
    /\ cars_call \in [ budget_min_lakhs : BudgetMins, budget_max_lakhs : BudgetMaxs,
                        fuel_preference : FuelPreferences, min_seats : SeatCounts,
                        returned : { <<>> } ]
    /\ NoRequests
    /\ quota_call = NoQuotaCall
    /\ both = <<>>

\* the arguments of the call as keywords
CarsArgs(c) ==
    { <<"budget_min_lakhs", "num", c.budget_min_lakhs>>,
      <<"budget_max_lakhs", "num", c.budget_max_lakhs>>,
      <<"fuel_preference", "str", c.fuel_preference>>,
      <<"min_seats", "num", c.min_seats>> }

\* get_tata_cars(budget_min_lakhs, budget_max_lakhs, fuel_preference, min_seats) is called
GetTataCars ==
    /\ cars_call.returned = <<>>
    /\ cars_call' = [ cars_call EXCEPT !.returned =
           << get_tata_cars(tables.cars, Num(cars_call.budget_min_lakhs),
                            Num(cars_call.budget_max_lakhs),
                            Str(cars_call.fuel_preference),
                            Num(cars_call.min_seats)) >> ]
    /\ tables' = TablesAfter("get_tata_cars", CarsArgs(cars_call), tables)
    /\ UNCHANGED << weather, dispatched, AgentState, inflight, frames, quota_call, both >>

CarsNext == GetTataCars

SpecCars == CarsInit /\ [][CarsNext]_vars

-----------------------------------------------------------------------------
(* Concurrent queries: /api/chat is served by several threads at once,     *)
(* each calling run_agent with the module's gemini_agent and groq_agent    *)

\* the question a provider is asked: the user message of the conversation
\* it is sent
Asked(conv) ==
    LET us == SelectSeq(conv, LAMBDA m : m.role = "user") IN
    IF us = <<>> THEN ""
    ELSE IF "text" \in DOMAIN us[1] THEN us[1].text ELSE us[1].content

CallPune == [ name |-> "get_fuel_price", args |-> { <<"city", "str", CityName.Pune>> },
              decodable |-> TRUE ]

\* the providers answer the question they are asked: its tool call, and
\* its final text
CallAbout(q) ==
    CASE q = "Best Tata car under 16 lakhs?" -> CallGood
      [] q = "Tata EV for Pune?"             -> CallPune
      [] OTHER                               -> CallUnknown

AnswerAbout(q) == << "Re: ", q >>

GeminiResponsesTo(conv) ==
    { [ calls |-> << CallAbout(Asked(conv)) >>, texts |-> <<>> ],
      [ calls |-> <<>>, texts |-> << AnswerAbout(Asked(conv)) >> ],
      [ calls |-> <<>>, texts |-> <<>> ] }

GroqResponsesTo(conv) ==
    { [ tool_calls |-> << CallAbout(Asked(conv)) >>, content |-> <<>>,
        finish_reason |-> "tool_calls" ],
      [ tool_calls |-> <<>>, content |-> AnswerAbout(Asked(conv)), finish_reason |-> "stop" ],
      [ tool_calls |-> <<>>, content |-> <<>>, finish_reason |-> "stop" ] }

\* a quota error and another error
ServedExcMessages ==
    { <<"429", " ", "RESOURCE_EXHAUSTED">>, <<"500", " ", "Internal Server Error">> }

\* run_agent's arguments and locals for one request; `asked` is history:
\* the calls the provider asked of the running loop
NewRequest(force) ==
    [ force_groq |-> force, pc |-> "start", err_str |-> None, outcome |-> "running",
      result |-> NoResult, raised |-> None, asked |-> <<>> ]

\* the locals of agent.run(): no call in progress
NoLocals == [ step |-> 0, conversation |-> <<>>, tool_log |-> <<>>,
              pending |-> <<>>, tr_parts |-> <<>> ]

\* where the locals of the request's agent.run() live: in the frame of the
\* call, not on the agent the requests share
Frame_on_agent(q) == CHOOSE f \in Queries : TRUE

\* contents / messages, tool_log, step and tr_parts are local variables of
\* run(); the agents hold only self.client and self.tools
Frame(q) == q

ServedInit ==
    /\ query = ""
    /\ gemini_agent \in BOOLEAN
    /\ groq_agent \in BOOLEAN
    /\ force_groq = FALSE
    /\ Fresh
    /\ tables = ReferenceTables
    /\ weather = WttrDown
    /\ dispatched = <<>>
    /\ cars_call = NoCarsCall
    /\ quota_call = NoQuotaCall
    /\ both = <<>>
    /\ inflight \in [ Queries -> { NewRequest(f) : f \in BOOLEAN } ]
    /\ frames = [ f \in { Frame(q) : q \in Queries } |-> NoLocals ]

\* the request's state after a step: run_agent's part and the loop's locals
Kept(r, l) == [ req |-> r, loc |-> l ]

Ended(r, out, res, exc) ==
    Kept([ r EXCEPT !.pc = "done", !.outcome = out, !.result = res, !.raised = exc ],
         NoLocals)

Entered(r, q, p, at) ==
    Kept([ r EXCEPT !.pc = at, !.asked = <<>> ],
         [ NoLocals EXCEPT !.conversation =
               IF p = "gemini" THEN GeminiInitial(q) ELSE GroqInitial(q) ])

Branched(r, q, branch, msg) ==
    CASE branch = "groq_forced"   -> Entered(r, q, "groq", "groq_forced")
      [] branch = "gemini"        -> Entered(r, q, "gemini", "gemini")
      [] branch = "groq_fallback" -> Entered(r, q, "groq", "groq_fallback")
      [] branch = "none"          -> Ended(r, "returned", NoProviderResult, None)
      [] branch = "error"         -> Ended(r, "returned", PrimaryError(msg), None)

LoopReturned(r, res) ==
    CASE r.pc = "gemini"        -> Ended(r, "returned", res, None)
      [] r.pc = "groq_forced"   -> Ended(r, "returned", ForcedResult(res), None)
      [] r.pc = "groq_fallback" -> Ended(r, "returned", FallbackResult(res), None)

LoopRaised(r, q, msg) ==
    CASE r.pc = "gemini" ->
           Branched([ r EXCEPT !.err_str = Some(msg) ], q,
                    OnPrimaryException(msg, groq_agent), msg)
      [] r.pc = "groq_fallback" -> Ended(r, "returned", SecondaryError(msg), None)
      [] r.pc = "groq_forced"   -> Ended(r, "raised", NoResult, Some(msg))

\* the step of request q writes its own part of run_agent and its frame
Commit(q, nxt) ==
    /\ inflight' = [ inflight EXCEPT ![q] = nxt.req ]
    /\ frames' = [ frames EXCEPT ![Frame(q)] = nxt.loc ]
    /\ UNCHANGED << AgentState, tables, weather, dispatched, cars_call, quota_call, both >>

\* a request thread calls run_agent
ServeRunAgent(q) ==
    /\ inflight[q].pc = "start"
    /\ Commit(q, Branched(inflight[q], q,
                          FirstBranch(inflight[q].force_groq, gemini_agent, groq_agent),
                          <<>>))

\* GeminiAgent.run of request q: generate_content returns
ServeGeminiSend(q) ==
    /\ inflight[q].pc = "gemini"
    /\ frames[Frame(q)].pending = <<>>
    /\ LET r == inflight[q]
           l == frames[Frame(q)]
       IN  \E resp \in GeminiResponsesTo(l.conversation) :
             Commit(q,
               IF GeminiWantsTools(resp)
               THEN Kept([ r EXCEPT !.asked = @ \o resp.calls ],
                         [ l EXCEPT !.conversation = Append(@,
                                        [ role |-> "model", calls |-> resp.calls,
                                          texts |-> resp.texts ]),
                                    !.pending = resp.calls,
                                    !.tr_parts = <<>> ])
               ELSE IF resp.texts # <<>>
               THEN LoopReturned(r, AgentResult(JoinLines(resp.texts), l.tool_log,
                                            GEMINI_MODEL, "gemini", FALSE, None))
               ELSE LoopReturned(r, Exhausted(l.tool_log, GEMINI_MODEL, "gemini")))

\* GeminiAgent.run of request q: generate_content raises
ServeGeminiSendRaises(q) ==
    /\ inflight[q].pc = "gemini"
    /\ frames[Frame(q)].pending = <<>>
    /\ \E msg \in ServedExcMessages : Commit(q, LoopRaised(inflight[q], q, msg))

\* GeminiAgent.run of request q: one iteration of `for fc in calls:`
ServeGeminiToolCall(q) ==
    /\ inflight[q].pc = "gemini"
    /\ frames[Frame(q)].pending # <<>>
    /\ LET r  == inflight[q]
           l  == frames[Frame(q)]
           fc == NextCall(l.pending)
       IN  Commit(q,
             IF ~fc.decodable
             THEN LoopRaised(r, q, GeminiDecodeError)
             ELSE IF DispatchRun(fc.name, fc.args).raised
             THEN LoopRaised(r, q, DispatchRun(fc.name, fc.args).msg)
             ELSE LET res   == dispatch(fc.name, fc.args)
                      log   == Append(l.tool_log, LogEntry(l.step, fc.name, fc.args))
                      parts == Append(l.tr_parts, [ name |-> fc.name, response |-> res ])
                      rest  == Tail(l.pending)
                  IN  IF rest # <<>>
                      THEN Kept(r, [ l EXCEPT !.tool_log = log, !.tr_parts = parts,
                                              !.pending = rest ])
                      ELSE IF LoopContinues(l.step)
                      THEN Kept(r, [ l EXCEPT !.tool_log = log, !.tr_parts = <<>>,
                                              !.pending = <<>>,
                                              !.conversation = Append(@,
                                                  [ role |-> "tool", parts |-> parts ]),
                                              !.step = @ + 1 ])
                      ELSE LoopReturned(r, Exhausted(log, GEMINI_MODEL, "gemini")))

ServedByGroq(q) == inflight[q].pc \in { "groq_forced", "groq_fallback" }

\* tc.id: the position of the call among the tool calls of the last
\* assistant message
ToolCallId(conv) ==
    LET at == { i \in 1..Len(conv) : conv[i].role = "assistant" }
        k  == IF at = {} THEN 0 ELSE CHOOSE i \in at : \A j \in at : j <= i
    IN  Len(conv) - k + 1

\* GroqAgent.run of request q: completions.create returns
ServeGroqSend(q) ==
    /\ ServedByGroq(q)
    /\ frames[Frame(q)].pending = <<>>
    /\ LET r == inflight[q]
           l == frames[Frame(q)]
       IN  \E resp \in GroqResponsesTo(l.conversation) :
             Commit(q,
               IF GroqWantsTools(resp)
               THEN Kept([ r EXCEPT !.asked = @ \o resp.tool_calls ],
                         [ l EXCEPT !.conversation = Append(@,
                                        [ role |-> "assistant",
                                          tool_calls |-> resp.tool_calls,
                                          content |-> resp.content ]),
                                    !.pending = resp.tool_calls ])
               ELSE IF resp.content # <<>>
               THEN LoopReturned(r, AgentResult(resp.content, l.tool_log,
                                            GROQ_MODEL, "groq", FALSE, None))
               ELSE LoopReturned(r, Exhausted(l.tool_log, GROQ_MODEL, "groq")))

\* GroqAgent.run of request q: completions.create raises
ServeGroqSendRaises(q) ==
    /\ ServedByGroq(q)
    /\ frames[Frame(q)].pending = <<>>
    /\ \E msg \in ServedExcMessages : Commit(q, LoopRaised(inflight[q], q, msg))

\* GroqAgent.run of request q: one iteration of `for tc in msg.tool_calls:`
ServeGroqToolCall(q) ==
    /\ ServedByGroq(q)
    /\ frames[Frame(q)].pending # <<>>
    /\ LET r  == inflight[q]
           l  == frames[Frame(q)]
           tc == NextCall(l.pending)
       IN  Commit(q,
             IF ~tc.decodable
             THEN LoopRaised(r, q, GroqDecodeError)
             ELSE IF DispatchRun(tc.name, tc.args).raised
             THEN LoopRaised(r, q, DispatchRun(tc.name, tc.args).msg)
             ELSE LET res  == dispatch(tc.name, tc.args)
                      log  == Append(l.tool_log, LogEntry(l.step, tc.name, tc.args))
                      msgs == Append(l.conversation,
                                  [ role |-> "tool",
                                    tool_call_id |-> ToolCallId(l.conversation),
                                    content |-> res ])
                      rest == Tail(l.pending)
                  IN  IF rest # <<>> \/ LoopContinues(l.step)
                      THEN Kept(r, [ l EXCEPT !.tool_log = log, !.conversation = msgs,
                                              !.pending = rest,
                                              !.step = IF rest # <<>> THEN @ ELSE @ + 1 ])
                      ELSE LoopReturned(r, Exhausted(log, GROQ_MODEL, "groq")))

ServedNext ==
    \E q \in Queries :
        \/ ServeRunAgent(q)
        \/ ServeGeminiSend(q)
        \/ ServeGeminiSendRaises(q)
        \/ ServeGeminiToolCall(q)
        \/ ServeGroqSend(q)
        \/ ServeGroqSendRaises(q)
        \/ ServeGroqToolCall(q)

SpecServed == ServedInit /\ [][ServedNext]_vars

-----------------------------------------------------------------------------
(* The quota classification on its own, on messages spelled out character  *)
(* by character                                                             *)

\* the characters of the pieces the keywords are written with
Letters(piece) ==
    CASE piece = "429" -> << "4", "2", "9" >>
      [] piece = "RESOURCE_EXHAUSTED" -> << "R", "E", "S", "O", "U", "R", "C", "E", "_", "E", "X", "H", "A", "U", "S", "T", "E", "D" >>
      [] piece = "quota" -> << "q", "u", "o", "t", "a" >>
      [] piece = "rate" -> << "r", "a", "t", "e" >>
      [] piece = "_" -> << "_" >>
      [] piece = " " -> << " " >>
      [] piece = "limit" -> << "l", "i", "m", "i", "t" >>

\* a text given in pieces, character by character
RECURSIVE Spelled(_)
Spelled(pieces) ==
    IF pieces = <<>> THEN <<>> ELSE Letters(Head(pieces)) \o Spelled(Tail(pieces))

\* _QUOTA_KEYWORDS, character by character
QuotaKeywordText == { Spelled(kw) : kw \in QUOTA_KEYWORDS }

\* mutant: the keywords are searched for without regard to case
is_quota_text_ignoring_case(msg) ==
    \E kw \in QuotaKeywordText : Contains(Lower(msg), Lower(kw))

\* is_quota = any(kw in err_str for kw in _QUOTA_KEYWORDS), on characters
is_quota_text(msg) == \E kw \in QuotaKeywordText : Contains(msg, kw)

\* the messages classified: a keyword or a near miss of one (other case,
\* other separator, a part of it), alone or inside a longer message
QuotaCores ==
    { << "4", "2", "9" >>,
      << "4", "2", " ", "9" >>,
      << "4", "-", "2", "-", "9" >>,
      << "R", "E", "S", "O", "U", "R", "C", "E", "_", "E", "X", "H", "A", "U", "S", "T", "E", "D" >>,
      << "r", "e", "s", "o", "u", "r", "c", "e", "_", "e", "x", "h", "a", "u", "s", "t", "e", "d" >>,
      << "R", "E", "S", "O", "U", "R", "C", "E", " ", "E", "X", "H", "A", "U", "S", "T", "E", "D" >>,
      << "R", "e", "s", "o", "u", "r", "c", "e", "_", "E", "x", "h", "a", "u", "s", "t", "e", "d" >>,
      << "q", "u", "o", "t", "a" >>,
      << "Q", "u", "o", "t", "a" >>,
      << "Q", "U", "O", "T", "A" >>,
      << "q", "u", "o", "t" >>,
      << "r", "a", "t", "e", "_", "l", "i", "m", "i", "t" >>,
      << "r", "a", "t", "e", " ", "l", "i", "m", "i", "t" >>,
      << "R", "a", "t", "e", " ", "L", "i", "m", "i", "t" >>,
      << "R", "A", "T", "E", "_", "L", "I", "M", "I", "T" >>,
      << "r", "a", "t", "e", "-", "l", "i", "m", "i", "t" >>,
      << "r", "a", "t", "e", "l", "i", "m", "i", "t" >>,
      << "r", "a", "t", "e", " ", " ", "l", "i", "m", "i", "t" >>,
      << "l", "i", "m", "i", "t", " ", "r", "a", "t", "e" >>,
      << "5", "0", "0" >>,
      << >> }

QuotaPrefixes == { << >>, << "H", "T", "T", "P", " " >> }

QuotaSuffixes ==
    { << >>,
      << " ", "e", "x", "c", "e", "e", "d", "e", "d" >>,
      << "s" >> }

QuotaMessages ==
    { p \o c \o x : p \in QuotaPrefixes, c \in QuotaCores, x \in QuotaSuffixes }

QuotaInit ==
    /\ query = ""
    /\ gemini_agent = FALSE
    /\ groq_agent = FALSE
    /\ force_groq = FALSE
    /\ Fresh
    /\ tables = ReferenceTables
    /\ weather = WttrDown
    /\ dispatched = <<>>
    /\ cars_call = NoCarsCall
    /\ NoRequests
    /\ quota_call \in [ err_str : QuotaMessages, is_quota : { <<>> } ]
    /\ both = <<>>

\* err_str = str(e) is classified
Classify ==
    /\ quota_call.is_quota = <<>>
    /\ quota_call' = [ quota_call EXCEPT !.is_quota = << is_quota_text(quota_call.err_str) >> ]
    /\ UNCHANGED << AgentState, tables, weather, dispatched, cars_call, inflight, frames, both >>

QuotaNext == Classify

SpecQuota == QuotaInit /\ [][QuotaNext]_vars

-----------------------------------------------------------------------------
(* The two agent loops side by side: GeminiAgent.run and GroqAgent.run on  *)
(* the same query, each given the provider's responses in its own encoding *)

\* the non-empty lists of at most n calls whose arguments decode
DecodedLists(n) == UNION { [1..k -> { c \in Calls : c.decodable }] : k \in 1..n }

\* a response as both providers can give it: tool calls, a text, and the
\* finish reason that only Groq's encoding carries
Fed(used) ==
    { [ calls |-> cs, text |-> <<>>, finish_reason |-> "tool_calls" ] :
        cs \in DecodedLists(MaxVariedCalls - used) \cup { <<CallGood>> } }
    \cup { [ calls |-> cs, text |-> Text1, finish_reason |-> "tool_calls" ] :
             cs \in { c \in DecodedLists(MaxVariedCalls - used) : c = <<CallGood>> } }
    \cup { [ calls |-> <<>>, text |-> t, finish_reason |-> "stop" ] : t \in { <<>>, Text1 } }
    \cup { [ calls |-> <<CallGood>>, text |-> t, finish_reason |-> f ] :
             t \in { <<>>, Text1 }, f \in { "stop", "length" } }

\* content.parts of the Gemini response
GeminiForm(r) ==
    [ calls |-> r.calls, texts |-> IF r.text = <<>> THEN <<>> ELSE << r.text >> ]

\* choices[0] of the Groq response
GroqForm(r) ==
    [ tool_calls |-> r.calls, content |-> r.text, finish_reason |-> r.finish_reason ]

\* run() is entered: its locals, the provider calls made, and its result
LoopEntered(initial) ==
    [ step |-> 0, conversation |-> initial, tool_log |-> <<>>, pending |-> <<>>,
      tr_parts |-> <<>>, sends |-> 0, ended |-> FALSE, result |-> NoResult ]

\* run() returns res
LoopOver(l, res) == [ l EXCEPT !.ended = TRUE, !.result = res, !.pending = <<>> ]

\* GeminiAgent.run: generate_content returns resp
GeminiReceives(l, resp) ==
    LET s == [ l EXCEPT !.sends = @ + 1 ] IN
    IF GeminiWantsTools(resp)
    THEN [ s EXCEPT !.conversation = Append(@, [ role |-> "model", calls |-> resp.calls,
                                                 texts |-> resp.texts ]),
                    !.pending = resp.calls,
                    !.tr_parts = <<>> ]
    ELSE IF resp.texts # <<>>
    THEN LoopOver(s, AgentResult(JoinLines(resp.texts), l.tool_log,
                                 GEMINI_MODEL, "gemini", FALSE, None))
    ELSE LoopOver(s, Exhausted(l.tool_log, GEMINI_MODEL, "gemini"))

\* GeminiAgent.run: one iteration of `for fc in calls:`
GeminiHandles(l) ==
    LET fc    == NextCall(l.pending)
        res   == dispatch(fc.name, fc.args)
        log   == Append(l.tool_log, LogEntry(l.step, fc.name, fc.args))
        parts == Append(l.tr_parts, [ name |-> fc.name, response |-> res ])
        rest  == Tail(l.pending)
    IN  IF rest # <<>>
        THEN [ l EXCEPT !.tool_log = log, !.tr_parts = parts, !.pending = rest ]
        ELSE IF LoopContinues(l.step)
        THEN [ l EXCEPT !.tool_log = log, !.tr_parts = <<>>, !.pending = <<>>,
                        !.conversation = Append(@, [ role |-> "tool", parts |-> parts ]),
                        !.step = @ + 1 ]
        ELSE LoopOver([ l EXCEPT !.tool_log = log ],
                      Exhausted(log, GEMINI_MODEL, "gemini"))

\* GroqAgent.run: completions.create returns resp
GroqReceives(l, resp) ==
    LET s == [ l EXCEPT !.sends = @ + 1 ] IN
    IF GroqWantsTools(resp)
    THEN [ s EXCEPT !.conversation = Append(@, [ role |-> "assistant",
                                                 tool_calls |-> resp.tool_calls,
                                                 content |-> resp.content ]),
                    !.pending = resp.tool_calls ]
    ELSE IF resp.content # <<>>
    THEN LoopOver(s, AgentResult(resp.content, l.tool_log, GROQ_MODEL, "groq", FALSE, None))
    ELSE LoopOver(s, Exhausted(l.tool_log, GROQ_MODEL, "groq"))

\* GroqAgent.run: one iteration of `for tc in msg.tool_calls:`
GroqHandles(l) ==
    LET tc   == NextCall(l.pending)
        res  == dispatch(tc.name, tc.args)
        log  == Append(l.tool_log, LogEntry(l.step, tc.name, tc.args))
        msgs == Append(l.conversation,
                    [ role |-> "tool", tool_call_id |-> ToolCallId(l.conversation),
                      content |-> res ])
        rest == Tail(l.pending)
    IN  IF rest # <<>> \/ LoopContinues(l.step)
        THEN [ l EXCEPT !.tool_log = log, !.conversation = msgs, !.pending = rest,
                        !.step = IF rest # <<>> THEN @ ELSE @ + 1 ]
        ELSE LoopOver([ l EXCEPT !.tool_log = log ], Exhausted(log, GROQ_MODEL, "groq"))

\* Groq's finish reason says "tool_calls" whenever the response has tool calls
AsGeminiWould(r) == r.calls # <<>> => r.finish_reason = "tool_calls"

BothInit ==
    /\ query \in Queries
    /\ gemini_agent = TRUE
    /\ groq_agent = TRUE
    /\ force_groq = FALSE
    /\ Fresh
    /\ tables = ReferenceTables
    /\ weather = WttrDown
    /\ dispatched = <<>>
    /\ cars_call = NoCarsCall
    /\ NoRequests
    /\ quota_call = NoQuotaCall
    /\ both = [ gemini |-> LoopEntered(GeminiInitial(query)),
                groq |-> LoopEntered(GroqInitial(query)),
                as_gemini |-> TRUE ]

BothRunning == ~both.gemini.ended /\ ~both.groq.ended

\* each loop calls its provider and the two are answered alike
BothReceive ==
    /\ BothRunning
    /\ both.gemini.pending = <<>>
    /\ both.groq.pending = <<>>
    /\ \E r \in Fed(Len(both.gemini.tool_log)) :
         both' = [ gemini |-> GeminiReceives(both.gemini, GeminiForm(r)),
                   groq |-> GroqReceives(both.groq, GroqForm(r)),
                   as_gemini |-> both.as_gemini /\ AsGeminiWould(r) ]
    /\ UNCHANGED << AgentState, tables, weather, dispatched, cars_call, inflight, frames,
                    quota_call >>

\* each loop handles the next call of the turn
BothHandle ==
    /\ BothRunning
    /\ both.gemini.pending # <<>>
    /\ both.groq.pending # <<>>
    /\ both' = [ both EXCEPT !.gemini = GeminiHandles(@), !.groq = GroqHandles(@) ]
    /\ UNCHANGED << AgentState, tables, weather, dispatched, cars_call, inflight, frames,
                    quota_call >>

BothNext ==
    \/ BothReceive
    \/ BothHandle

SpecBoth == BothInit /\ [][BothNext]_vars

-----------------------------------------------------------------------------
(* Properties *)

Done == pc = "done"
Returned == pc = "done" /\ outcome = "returned"

\* the five keywords of the quota classification, written out
HasQuotaKeyword(msg) ==
    \/ Contains(msg, <<"429">>)
    \/ Contains(msg, <<"RESOURCE_EXHAUSTED">>)
    \/ Contains(msg, <<"quota">>)
    \/ Contains(msg, <<"rate", "_", "limit">>)
    \/ Contains(msg, <<"rate", " ", "limit">>)

\* the primary's loop raised, with message m
PrimaryRaised(m) == err_str = Some(m)

\* the tool log of the loop: the local while it runs, the result's once returned
CurrentLog == IF pc = "done" THEN result.tool_log ELSE tool_log

\* entries base+1 .. base+n of the log are the first n calls of the turn, in order
LoggedInOrder(n) ==
    \A i \in 1..n :
        /\ turn.base + i <= Len(CurrentLog)
        /\ CurrentLog[turn.base + i] =
             [ step |-> turn.step + 1, tool |-> turn.calls[i].name,
               args |-> turn.calls[i].args ]

\* C1: run_agent never raises: whatever the arguments and the providers do, it
\* ends by returning an AgentResult, and an exception of the secondary's loop
\* comes back as a result with error set.
C1_NeverRaises == Done => outcome = "returned"

\* C2: an agent loop makes at most 12 provider calls; once the 12th call has
\* been answered and its tool calls handled, the loop is over, and when every
\* send was answered with tool calls the result is the exhaustion result.
C2_LoopBounded ==
    /\ sends <= 12
    /\ (sends = 12 /\ pending = <<>>) => Done
    /\ (Done /\ sends = 12 /\ turn.tools /\ ~turn.aborted) =>
          /\ outcome = "returned"
          /\ result.answer = MaxStepsAnswer
          /\ result.error = None

C2_Witness ==
    /\ Returned
    /\ sends = 12
    /\ turn.tools
    /\ result.answer = MaxStepsAnswer
    /\ Len(result.tool_log) >= 12

\* C3 as stated: when the primary's loop raises and a secondary is configured,
\* the secondary's loop is invoked iff the message contains "429" or "quota".
C3_Original ==
    \A m \in ExcMessages :
        (PrimaryRaised(m) /\ groq_agent) =>
            (runs.groq > 0 <=> (Contains(m, <<"429">>) \/ Contains(m, <<"quota">>)))

\* C3 amended: when the primary's loop raises and a secondary is configured,
\* the secondary's loop is invoked iff the message contains one of "429",
\* "RESOURCE_EXHAUSTED", "quota", "rate_limit", "rate limit".
C3_FiveKeywords ==
    \A m \in ExcMessages \cup { GeminiDecodeError } :
        (PrimaryRaised(m) /\ groq_agent) =>
            (runs.groq > 0 <=> HasQuotaKeyword(m))

C3_Witness ==
    /\ PrimaryRaised(<<"rate", " ", "limit", " ", "reached">>)
    /\ groq_agent
    /\ runs.groq = 1
    /\ Returned

\* C4: with both providers configured, after a quota-classified exception of
\* the primary's loop the result run_agent returns has provider "groq" and
\* fallback_used true.
C4_FallbackResult ==
    (Done /\ gemini_agent /\ groq_agent /\ err_str # None /\ HasQuotaKeyword(err_str[1])) =>
        /\ outcome = "returned"
        /\ result.provider = "groq"
        /\ result.fallback_used = TRUE

\* C5: with neither provider configured, whatever the query and the force
\* flag, run_agent returns provider "none" with a non-empty error and no agent
\* loop is invoked.
C5_NoProvider ==
    (pc # "start" /\ ~gemini_agent /\ ~groq_agent) =>
        /\ Returned
        /\ result.provider = "none"
        /\ result.error # None
        /\ result.error[1] # <<>>
        /\ runs.gemini = 0 /\ runs.groq = 0
        /\ sends = 0

C5_Witness == Returned /\ ~gemini_agent /\ ~groq_agent /\ force_groq

\* C6: when the primary's loop raises an exception that is not quota-classified,
\* run_agent returns a result whose error is the message and whose provider is
\* the primary, and the secondary's loop is not invoked.
C6_NonQuotaTerminal ==
    (err_str # None /\ ~HasQuotaKeyword(err_str[1])) =>
        /\ Returned
        /\ result.error = err_str
        /\ result.provider = "gemini"
        /\ result.answer = <<>>
        /\ runs.groq = 0

C6_Witness ==
    /\ PrimaryRaised(<<"500", " ", "Internal Server Error">>)
    /\ groq_agent
    /\ Returned
    /\ result.error = Some(<<"500", " ", "Internal Server Error">>)

\* the returned result is the one the secondary's loop returned (only the
\* loops set model)
ProducedBySecondary == result.model = GROQ_MODEL

\* C7 as stated: on every returned result, fallback_used is true iff the
\* secondary produced the result.
C7_Original == Returned => (result.fallback_used <=> ProducedBySecondary)

\* C7 amended: on every returned result, fallback_used is true iff the result
\* was returned by the secondary's loop and the secondary was not run in force
\* mode (force_groq with a secondary configured).
C7_UnlessForced ==
    Returned =>
        (result.fallback_used <=> (ProducedBySecondary /\ ~(force_groq /\ groq_agent)))

C7_Witness ==
    /\ Returned
    /\ ProducedBySecondary
    /\ result.fallback_used
    /\ err_str # None

\* C8: fallback_used is true exactly when the secondary's loop was reached
\* after a quota-classified failure of the primary; it is false when the
\* secondary ran because it was forced or because no primary is configured.
C8_OnlyViaFallbackPath ==
    Returned => (result.fallback_used <=> (runs.groq = 1 /\ err_str # None))

\* C9: with force_groq set and a secondary configured, run_agent invokes the
\* secondary's loop directly, never the primary's, and a returned result has
\* fallback_used false.
C9_Forced ==
    (force_groq /\ groq_agent /\ pc # "start") =>
        /\ pc \in { "groq_forced", "done" }
        /\ runs.gemini = 0
        /\ runs.groq = 1
        /\ err_str = None
        /\ Returned => (result.fallback_used = FALSE /\ result.provider = "groq")

C9_Witness ==
    /\ force_groq /\ groq_agent /\ gemini_agent
    /\ Returned
    /\ result.answer = Text1
    /\ result.fallback_used = FALSE

GeminiParts(n) ==
    [ i \in 1..n |-> [ name |-> turn.calls[i].name,
                       response |-> dispatch(turn.calls[i].name, turn.calls[i].args) ] ]

GroqToolMessages(n) ==
    [ i \in 1..n |-> [ role |-> "tool", tool_call_id |-> i,
                       content |-> dispatch(turn.calls[i].name, turn.calls[i].args) ] ]

\* the conversation ends with the results of the first n calls of the turn
ResultsAppended(n) ==
    IF turn.by = "gemini"
    THEN /\ conversation # <<>>
         /\ conversation[Len(conversation)] = [ role |-> "tool", parts |-> GeminiParts(n) ]
    ELSE /\ Len(conversation) >= n
         /\ SubSeq(conversation, Len(conversation) - n + 1, Len(conversation))
              = GroqToolMessages(n)

\* while a tool-call turn is handled the calls are taken one by one from the
\* front of the list and their results are kept in the order of the calls
DispatchedInOrder ==
    (pc # "done" /\ turn.tools /\ ~turn.aborted) =>
        /\ pending = SubSeq(turn.calls, turn.handled + 1, Len(turn.calls))
        /\ LoggedInOrder(turn.handled)
        /\ IF turn.by = "gemini"
           THEN IF pending # <<>> THEN tr_parts = GeminiParts(turn.handled)
                ELSE ResultsAppended(Len(turn.calls))
           ELSE ResultsAppended(turn.handled)

\* the step makes a provider call
ProviderCalled == sends' # sends

\* C11: within one turn the requested tools are dispatched one after the other
\* in the order the provider listed them, and when the next provider call is
\* made every call of the turn has been dispatched and its result is in the
\* conversation.
C11_SequentialBeforeNextSend ==
    /\ []DispatchedInOrder
    /\ [][ (ProviderCalled /\ turn.tools) =>
             /\ ~turn.aborted
             /\ pending = <<>>
             /\ turn.handled = Len(turn.calls)
             /\ ResultsAppended(Len(turn.calls)) ]_vars

C11_Witness ==
    /\ pc = "gemini"
    /\ sends = 2
    /\ turn.base = 2
    /\ Len(conversation) >= 3
    /\ conversation[3] =
         [ role |-> "tool",
           parts |-> << [ name |-> "get_fuel_price",
                          response |-> dispatch("get_fuel_price", ArgsCityNum) ],
                        [ name |-> "get_tata_cars",
                          response |-> dispatch("get_tata_cars", ArgsCars) ] >> ]

\* the text starts with the piece `piece`
StartsWith(text, piece) == text # <<>> /\ text[1] = piece

\* the three error objects of dispatch
IsUnknownToolError(out) == DOMAIN out = { "error" } /\ StartsWith(out.error, "Unknown tool: '")
IsBadArguments(out, args) ==
    /\ DOMAIN out = { "error", "args_received" }
    /\ StartsWith(out.error, "Bad arguments for ")
    /\ out.args_received = args
IsToolFailure(out, name, msg) == out = [ error |-> msg, tool |-> name ]

\* the direct calls kept in the history
Dispatched == { dispatched[i] : i \in 1..Len(dispatched) }

UnknownToolText(name) ==
    << "Unknown tool: '", name, "'. Available: ", "[",
       "'", "get_city_weather", "'", ", ", "'", "get_tata_cars", "'", ", ",
       "'", "get_fuel_price", "'", ", ", "'", "calculate_tco", "'", "]" >>

FourTools == { "get_city_weather", "get_tata_cars", "get_fuel_price", "calculate_tco" }

\* C13 as stated: a name outside the four registered tools invokes no tool
\* function and returns an object whose error field is "Unknown tool: <name>"
\* and whose separate available field lists the four tool names.
C13_Original ==
    \A d \in Dispatched :
        d.name \notin FourTools =>
            /\ ~d.run.raised
            /\ d.run.called = <<>>
            /\ DOMAIN d.run.out = { "error", "available" }

\* C13 amended: a name outside the four registered tools invokes no tool
\* function and returns an object with the single field error, whose text is
\* "Unknown tool: '<name>'. Available: [...]" with the four registered names
\* listed in it; there is no separate available field.
C13_SingleErrorField ==
    \A d \in Dispatched :
        d.name \notin FourTools =>
            /\ ~d.run.raised
            /\ d.run.called = <<>>
            /\ d.tool = "none"
            /\ d.run.out = [ error |-> UnknownToolText(d.name) ]

C13_Witness ==
    \E d \in Dispatched :
        /\ d.name = "delete_everything"
        /\ d.args = ArgsNone
        /\ d.run.out = [ error |-> UnknownToolText("delete_everything") ]

\* a tool execution error: the tool is unknown, the arguments do not fit, or
\* the tool function raises
ToolFails(c) == c.name \notin FourTools \/ ToolCall(c.name, c.args).kind # "value"

\* the inner loop is about to take a call that ends in a tool execution error
AtToolError ==
    /\ pc # "done"
    /\ pending # <<>>
    /\ pending[1].decodable
    /\ ToolFails(pending[1])

\* after the step the payload is held as the result of the call just taken
PayloadKept(c, payload) ==
    IF pc = "gemini"
    THEN IF pending' # <<>>
         THEN tr_parts'[Len(tr_parts')] = [ name |-> c.name, response |-> payload ]
         ELSE LET last == conversation'[Len(conversation')] IN
              /\ last.role = "tool"
              /\ last.parts[Len(last.parts)] = [ name |-> c.name, response |-> payload ]
    ELSE LET last == conversation'[Len(conversation')] IN
         /\ last.role = "tool"
         /\ last.content = payload

LoopExhausted ==
    /\ Done
    /\ turn.by # "none"
    /\ ~turn.aborted
    /\ turn.empty \/ (sends = MAX_STEPS /\ turn.tools)

\* C15: when the provider returns an empty response (neither text nor tool
\* calls) or the 12 iterations end without a final text, run_agent returns a
\* result whose answer is the fixed exhaustion message and whose error is
\* unset, produced by the loop that was exhausted, and an exhausted primary is
\* not followed by a run of the secondary.
C15_ExhaustionIsSoft ==
    LoopExhausted =>
        /\ outcome = "returned"
        /\ result.answer = MaxStepsAnswer
        /\ result.error = None
        /\ result.provider = turn.by
        /\ result.model = (IF turn.by = "gemini" THEN GEMINI_MODEL ELSE GROQ_MODEL)
        /\ Len(result.tool_log) = turn.base + Len(turn.calls) * (IF turn.tools THEN 1 ELSE 0)
        /\ turn.by = "gemini" => (runs.groq = 0 /\ ~result.fallback_used)

C15_Witness ==
    /\ LoopExhausted
    /\ turn.by = "gemini"
    /\ turn.empty
    /\ groq_agent
    /\ result.answer = MaxStepsAnswer
    /\ Len(result.tool_log) = 2
    /\ runs.groq = 0

\* an Optional[str] that holds a non-empty text
NonEmpty(opt) == opt # None /\ opt[1] # <<>>

\* C16: on every result run_agent returns that is not a max-steps exhaustion,
\* exactly one of answer and error is non-empty, whatever the message of the
\* exception behind an error, the empty message included.
C16_ExactlyOneOfAnswerAndError ==
    (Returned /\ result.answer # MaxStepsAnswer) =>
        /\ result.answer # <<>> => ~NonEmpty(result.error)
        /\ result.answer = <<>> => NonEmpty(result.error)

\* C17 as stated: a returned error is non-empty only when both providers are
\* unavailable (provider "none" with neither configured) or a provider failed
\* with an error that is not quota-classified; a quota-classified message
\* never comes back as the error.
C17_Original ==
    (Returned /\ NonEmpty(result.error)) =>
        IF result.provider = "none"
        THEN ~gemini_agent /\ ~groq_agent
        ELSE ~HasQuotaKeyword(result.error[1])

\* C17 amended: a returned error is non-empty only (a) with provider "none",
\* when no secondary is configured and the primary is not configured or
\* failed with a quota-classified error, (b) with the primary's message, when
\* the primary failed with an error that is not quota-classified, or (c) with
\* the secondary's message, quota-classified or not, when the secondary's loop
\* raised in the fallback section; after a quota-classified failure of the
\* primary, a result the secondary's loop returns has no error and
\* fallback_used true.
C17_ErrorSources ==
    /\ (Returned /\ NonEmpty(result.error)) =>
          \/ /\ result.provider = "none"
             /\ result.error = Some(NoProviderError)
             /\ ~groq_agent
             /\ ~gemini_agent \/ (err_str # None /\ HasQuotaKeyword(err_str[1]))
          \/ /\ result.provider = "gemini"
             /\ err_str # None
             /\ ~HasQuotaKeyword(err_str[1])
             /\ result.error = err_str
             /\ runs.groq = 0
          \/ /\ result.provider = "groq"
             /\ result.model = ""
             /\ runs.groq = 1
             /\ ~(force_groq /\ groq_agent)
             /\ ~gemini_agent \/ (err_str # None /\ HasQuotaKeyword(err_str[1]))
    /\ (Returned /\ err_str # None /\ HasQuotaKeyword(err_str[1]) /\ ProducedBySecondary) =>
          /\ result.error = None
          /\ result.fallback_used

C17_Witness ==
    /\ Returned
    /\ err_str = Some(<< "429", " ", "RESOURCE_EXHAUSTED" >>)
    /\ result.provider = "groq"
    /\ result.error = Some(<< "quota", " ", "exceeded" >>)
    /\ ~result.fallback_used

\* get_tata_cars was called on its own and returned
CarsReturned == cars_call.returned # <<>> /\ cars_call.returned[1].kind = "value"

\* the price range of the car overlaps [budget_min, budget_max]
PriceOverlaps(s) ==
    ~(s.price_min > cars_call.budget_max_lakhs \/ s.price_max < cars_call.budget_min_lakhs)

\* the rows of the table that satisfy `wanted`, in the order of the table
RowsWhere(wanted(_)) == SelectSeq(TATA_CARS_DB, wanted)

\* the two letters are the same up to case
SameLetter(a, b) == Lower(<< a >>) = Lower(<< b >>)

\* `text` holds `part`, compared without regard to case
HoldsIgnoringCase(text, part) ==
    \E k \in 0..(Len(text) - Len(part)) :
        \A j \in 1..Len(part) : SameLetter(text[k + j], part[j])

\* `a` and `b` are the same text up to case
SameIgnoringCase(a, b) == Len(a) = Len(b) /\ HoldsIgnoringCase(a, b)

\* C19 as stated: get_tata_cars returns exactly the cars whose price range
\* overlaps the budget, whose fuel list contains the requested fuel (unless the
\* preference is "any") and whose seat count is at least min_seats, and
\* total_matches is their number.
C19_Original ==
    CarsReturned =>
        LET out == cars_call.returned[1].value
            wanted(s) ==
                /\ PriceOverlaps(s)
                /\ \/ cars_call.fuel_preference = << "a", "n", "y" >>
                   \/ \E i \in 1..Len(s.fuel_types) : s.fuel_types[i] = cars_call.fuel_preference
                /\ s.seats >= cars_call.min_seats
        IN  /\ out.matching_cars = RowsWhere(wanted)
            /\ out.total_matches = Len(out.matching_cars)

\* C19 amended: get_tata_cars returns exactly the cars whose price range
\* overlaps the budget, one of whose fuel types contains the requested fuel as
\* a substring, compared without regard to case (unless the preference is,
\* up to case, "any" or "no preference"), and whose seat count is at least
\* min_seats; total_matches is their number.
C19_FuelIsCaseInsensitiveSubstring ==
    CarsReturned =>
        LET out == cars_call.returned[1].value
            fuel == cars_call.fuel_preference
            wanted(s) ==
                /\ PriceOverlaps(s)
                /\ \/ SameIgnoringCase(fuel, << "a", "n", "y" >>)
                   \/ SameIgnoringCase(fuel, << "n", "o", " ", "p", "r", "e", "f", "e",
                                                "r", "e", "n", "c", "e" >>)
                   \/ \E i \in 1..Len(s.fuel_types) : HoldsIgnoringCase(s.fuel_types[i], fuel)
                /\ s.seats >= cars_call.min_seats
        IN  /\ out.matching_cars = RowsWhere(wanted)
            /\ out.total_matches = Len(out.matching_cars)
            /\ tables = ReferenceTables

\* budget 10 to 16 lakhs, "petrol", 4 seats: Tigor, Nexon, Altroz and Curvv
C19_Witness ==
    /\ CarsReturned
    /\ cars_call.budget_min_lakhs = 1000
    /\ cars_call.budget_max_lakhs = 1600
    /\ cars_call.fuel_preference = << "p", "e", "t", "r", "o", "l" >>
    /\ cars_call.min_seats = 400
    /\ cars_call.returned[1].value.total_matches = 4
    /\ cars_call.returned[1].value.matching_cars[2].name = NexonName
    /\ \A i \in 1..4 : cars_call.returned[1].value.matching_cars[i].price_min # 1619

OwnLog(calls) ==
    [ i \in 1..Len(calls) |-> LogEntry(i - 1, calls[i].name, calls[i].args) ]

\* the loop serving request q works on q's conversation and q's calls
OwnLoop(q) ==
    LET r == inflight[q]
        l == frames[Frame(q)]
    IN  /\ Asked(l.conversation) = q
        /\ \A i \in 1..Len(r.asked) : r.asked[i] = CallAbout(q)
        /\ Len(l.tool_log) <= Len(r.asked)
        /\ l.tool_log = OwnLog(SubSeq(r.asked, 1, Len(l.tool_log)))

\* the result of request q holds q's calls and q's answer
OwnResult(q) ==
    LET r   == inflight[q]
        res == r.result
    IN  IF res.error # None
        THEN res.tool_log = <<>> /\ res.answer = <<>>
        ELSE /\ res.tool_log = OwnLog(r.asked)
             /\ \A i \in 1..Len(res.tool_log) :
                    /\ res.tool_log[i].tool = CallAbout(q).name
                    /\ res.tool_log[i].args = CallAbout(q).args
             /\ res.answer \in { AnswerAbout(q), MaxStepsAnswer }

\* C18: run_agent calls running at once on the shared agents share no
\* mutable state: whatever the interleaving, each running loop holds the
\* conversation and the tool log of its own query, each result's tool_log
\* and answer hold only the calls and the response of its own query, and
\* the reference tables stay as they are.
C18_ConcurrentQueriesAreIsolated ==
    /\ tables = ReferenceTables
    /\ \A q \in Queries :
         /\ inflight[q].pc \in { "gemini", "groq_forced", "groq_fallback" } => OwnLoop(q)
         /\ (inflight[q].pc = "done" /\ inflight[q].outcome = "returned") => OwnResult(q)

\* one request has returned its answer after two tool calls while the
\* other is in the middle of a turn of the fallback loop
C18_Witness ==
    \E q1, q2 \in Queries :
        /\ q1 # q2
        /\ inflight[q1].pc = "done"
        /\ inflight[q1].result.answer = AnswerAbout(q1)
        /\ Len(inflight[q1].result.tool_log) = 2
        /\ inflight[q2].pc = "groq_fallback"
        /\ Len(frames[Frame(q2)].tool_log) = 1
        /\ frames[Frame(q2)].pending # <<>>

\* the results of a whole tool-call turn have been appended and the loop
\* has not ended
TurnAppended ==
    /\ pc # "done"
    /\ turn.tools
    /\ ~turn.aborted
    /\ pending = <<>>
    /\ turn.handled = Len(turn.calls)

\* run_agent ended in a turn in which tools had been dispatched
EndedAfterTools == Done /\ turn.handled > 0

\* C21 as stated: no tool is executed whose result is never sent to the
\* provider, so run_agent never ends in a turn in which a tool was dispatched.
C21_Original == ~EndedAfterTools

\* C21 amended: after the results of a turn are appended the loop's next step
\* is a provider call on a conversation that ends with those results, except
\* after the 12th iteration: there the loop ends with the exhaustion result
\* and the results of that turn are never sent.  The only other way to end in
\* a turn with dispatched tools is an exception part-way through the turn.
C21_SentBackUnlessLastIteration ==
    /\ [](TurnAppended =>
            /\ step = turn.step + 1
            /\ step < MAX_STEPS
            /\ ResultsAppended(Len(turn.calls)))
    /\ [][ TurnAppended => ProviderCalled ]_vars
    /\ [](EndedAfterTools =>
            \/ turn.aborted
            \/ /\ turn.step = MAX_STEPS - 1
               /\ turn.handled = Len(turn.calls)
               /\ outcome = "returned"
               /\ result.answer = MaxStepsAnswer
               /\ Len(result.tool_log) = turn.base + turn.handled)

C21_Witness ==
    /\ EndedAfterTools
    /\ ~turn.aborted
    /\ turn.by = "groq"
    /\ turn.step = MAX_STEPS - 1
    /\ turn.calls = << CallGood >>
    /\ result.answer = MaxStepsAnswer
    /\ Len(result.tool_log) = 12

\* the message holds the keyword as a run of consecutive characters, case
\* as written
HoldsText(kw) == Contains(quota_call.err_str, kw)

\* C22: an exception message is classified as quota-related iff it contains,
\* as a case-sensitive substring, one of "429", "RESOURCE_EXHAUSTED", "quota",
\* "rate_limit", "rate limit"; "Quota exceeded" and "Rate Limit" are not.
C22_CaseSensitiveSubstring ==
    quota_call.is_quota # <<>> =>
        /\ quota_call.is_quota[1] <=>
             \/ HoldsText(<< "4", "2", "9" >>)
             \/ HoldsText(<< "R", "E", "S", "O", "U", "R", "C", "E", "_",
                             "E", "X", "H", "A", "U", "S", "T", "E", "D" >>)
             \/ HoldsText(<< "q", "u", "o", "t", "a" >>)
             \/ HoldsText(<< "r", "a", "t", "e", "_", "l", "i", "m", "i", "t" >>)
             \/ HoldsText(<< "r", "a", "t", "e", " ", "l", "i", "m", "i", "t" >>)
        /\ quota_call.err_str \in
             { << "Q", "u", "o", "t", "a", " ", "e", "x", "c", "e", "e", "d", "e", "d" >>,
               << "R", "a", "t", "e", " ", "L", "i", "m", "i", "t" >> }
             => ~quota_call.is_quota[1]

\* "Rate Limit" has been classified, and another message that holds "429"
\* inside a longer text would be
C22_Witness ==
    /\ quota_call.err_str = << "R", "a", "t", "e", " ", "L", "i", "m", "i", "t" >>
    /\ quota_call.is_quota = << FALSE >>
    /\ is_quota_text(<< "H", "T", "T", "P", " ", "4", "2", "9", " ",
                        "e", "x", "c", "e", "e", "d", "e", "d" >>)

\* the two loops are at the same point: as many provider calls made, the same
\* calls dispatched and logged, the same calls still to handle, and once
\* they have returned the same answer, tool_log and error
LoopsAgree ==
    /\ both.gemini.sends = both.groq.sends
    /\ both.gemini.step = both.groq.step
    /\ both.gemini.tool_log = both.groq.tool_log
    /\ both.gemini.pending = both.groq.pending
    /\ both.gemini.ended = both.groq.ended
    /\ both.gemini.result.answer = both.groq.result.answer
    /\ both.gemini.result.tool_log = both.groq.result.tool_log
    /\ both.gemini.result.error = both.groq.result.error

\* C23 as stated: given the same responses the two loops make the same
\* number of provider calls, dispatch the same tools in the same order and
\* return the same answer and tool_log.
C23_Original == LoopsAgree

\* C23 amended: they do as long as every Groq response that carries tool
\* calls has finish_reason "tool_calls"; a response with tool calls and
\* another finish reason is a tool turn for Gemini and an end for Groq.
C23_SameAlgorithmGivenFinishReason ==
    /\ both.as_gemini => LoopsAgree
    /\ (~both.as_gemini /\ both.gemini.sends = both.groq.sends) =>
          (both.groq.ended /\ ~both.gemini.ended /\ both.gemini.pending # <<>>)

\* both loops have returned the text after a turn with both a text and a
\* call and a turn that asked for a tool that does not exist
C23_Witness ==
    /\ both.as_gemini
    /\ both.gemini.ended
    /\ both.groq.ended
    /\ both.gemini.sends = 3
    /\ both.groq.result.answer = Text1
    /\ both.gemini.result.answer = Text1
    /\ Len(both.groq.result.tool_log) = 2
    /\ both.groq.result.tool_log[2] = LogEntry(1, CallUnknown.name, CallUnknown.args)
    /\ both.groq.conversation[3].content = Text1
    /\ both.groq.conversation[3].tool_calls = << CallGood >>

\* C24: run_agent returns provider "none" (with the "No AI provider
\* available" error) only when neither the primary nor the secondary is
\* configured; when at least one is configured the returned provider names a
\* provider whose loop was invoked.
C24_NoneOnlyWhenUnconfigured ==
    Returned =>
        /\ (result.provider = "none" \/ result.error = Some(NoProviderError)) =>
              (~gemini_agent /\ ~groq_agent)
        /\ (gemini_agent \/ groq_agent) =>
              /\ result.provider \in { "gemini", "groq" }
              /\ runs[result.provider] > 0

\* the secondary's loop runs after the primary's has failed
InFallback == pc = "groq_fallback"

\* the messages after the system prompt and the query were put there by the
\* secondary's loop: the assistant's turns and one tool message for each
\* entry of its log
OnlySecondaryMessages ==
    /\ Len(conversation) >= 2
    /\ SubSeq(conversation, 1, 2) = GroqInitial(query)
    /\ \A i \in 3..Len(conversation) : conversation[i].role \in { "assistant", "tool" }
    /\ Cardinality({ i \in 3..Len(conversation) : conversation[i].role = "tool" })
         = Len(tool_log)

\* the step of the secondary's loop leaves the log as it is or appends the
\* entry of the call it dispatches; a step that ends in an error returns no log
SecondaryLogStep ==
    \/ CurrentLog' = CurrentLog
    \/ /\ pending # <<>>
       /\ CurrentLog' = Append(tool_log, LogEntry(step, NextCall(pending).name,
                                                  NextCall(pending).args))
    \/ /\ pc' = "done"
       /\ result'.error # None
       /\ result'.tool_log = <<>>

PrimaryHitQuota ==
    /\ runs.gemini = 1
    /\ err_str # None
    /\ HasQuotaKeyword(err_str[1])

\* C26: within one run_agent call each provider's loop is started at most
\* once; without force_groq the secondary's loop is started only after the
\* primary's loop has ended with a quota-classified exception or when no
\* primary is configured, and never while the primary's loop runs or after it
\* has returned a result.
C26_LoopsStartedAtMostOnce ==
    /\ runs.gemini <= 1
    /\ runs.groq <= 1
    /\ (~force_groq /\ runs.groq > 0) => (~gemini_agent \/ PrimaryHitQuota)
    /\ (runs.gemini = 1 /\ err_str = None) => runs.groq = 0
    /\ (Returned /\ result.provider = "gemini") => runs.groq = 0
    /\ pc = "gemini" => runs.groq = 0

C26_Witness ==
    /\ Returned
    /\ ~force_groq
    /\ gemini_agent
    /\ runs = [ gemini |-> 1, groq |-> 1 ]
    /\ err_str = Some(<<"rate", " ", "limit", " ", "reached">>)
    /\ result.provider = "groq"
    /\ result.answer = Text1
    /\ Len(result.tool_log) = 1

====
